---- MODULE Spec2Model ----
(***************************************************************************)
(* Async Euchre: the match record (games/{gameId}), the private hand       *)
(* records (games/{gameId}/players/{uid}) and the actions of               *)
(* src/src/screens/Game.tsx that write them.                               *)
(*                                                                         *)
(* A Firestore transaction (runTransaction) reads, validates and writes    *)
(* atomically, so each transactional action is one step.  startHand does   *)
(* not use a transaction: it validates against the caller's snapshot       *)
(* (the React state `game`, fed by onSnapshot) and commits a write batch.  *)
(***************************************************************************)
EXTENDS Integers, Sequences, FiniteSets, TLC

(***************************************************************************)
(* Bounds of the model                                                     *)
(***************************************************************************)
\* number of shuffles the deal is drawn from
NumDecks == 2
\* number of start-hand commits in one behaviour
MaxDeals == 2
\* the acting seat submits one of its first MaxPick cards (or its first legal one)
MaxPick == 1
\* number of commits the lagging client's snapshot may be behind the record
MaxLag == 2

(***************************************************************************)
(* Types / constants (Game.tsx 27-31, lib/deal.ts 4-5)                     *)
(***************************************************************************)
SEATS == <<"N", "E", "S", "W">>
SUITS == <<"S", "H", "D", "C">>
RANKS == <<"9", "T", "J", "Q", "K", "A">>

Seat == {"N", "E", "S", "W"}
Suit == {"S", "H", "D", "C"}
TeamKey == {"NS", "EW"}
Null == "null"

\* the score that ends the match (winningTeam's target)
Target == 10
\* tricks of a hand, cards dealt to a seat
HandSize == 5

\* the browser identities; U1 creates the game (Home.tsx createGame)
Uids == {"u1", "u2", "u3", "u4"}

Cards ==
  { "9S", "TS", "JS", "QS", "KS", "AS",
    "9H", "TH", "JH", "QH", "KH", "AH",
    "9D", "TD", "JD", "QD", "KD", "AD",
    "9C", "TC", "JC", "QC", "KC", "AC" }

\* createEuchreDeck: for each suit, for each rank, push rank+suit
createEuchreDeck ==
  << "9S", "TS", "JS", "QS", "KS", "AS",
     "9H", "TH", "JH", "QH", "KH", "AH",
     "9D", "TD", "JD", "QD", "KD", "AD",
     "9C", "TC", "JC", "QC", "KC", "AC" >>

DeckIndex == [c \in Cards |-> CHOOSE i \in 1..24 : createEuchreDeck[i] = c]

\* parseCard: rank = code[0], suit = code[1]
parseCard == [c \in Cards |->
  [rank |-> RANKS[((DeckIndex[c] - 1) % 6) + 1],
   suit |-> SUITS[((DeckIndex[c] - 1) \div 6) + 1]]]

\* rankLabel: "T" is shown as "10", every other rank as itself
rankLabel(r) == IF r = "T" THEN "10" ELSE r

suitCharFromCard(code) == parseCard[code].suit

SeatIdx == [s \in Seat |-> CHOOSE i \in 1..4 : SEATS[i] = s]

nextSeat(seat) == SEATS[(SeatIdx[seat] % 4) + 1]

teamKeyForSeat(seat) == IF seat = "N" \/ seat = "S" THEN "NS" ELSE "EW"

otherTeam(team) == IF team = "NS" THEN "EW" ELSE "NS"

teamOf(seat) == IF seat = "N" \/ seat = "S" THEN "NS" ELSE "EW"

winningTeam(score) ==
  IF score.NS >= Target THEN "NS"
  ELSE IF score.EW >= Target THEN "EW"
  ELSE Null

(***************************************************************************)
(* Euchre helpers (Game.tsx 187-223)                                       *)
(***************************************************************************)
leftBowerSuit(trump) ==
  IF trump = "H" THEN "D"
  ELSE IF trump = "D" THEN "H"
  ELSE IF trump = "S" THEN "C"
  ELSE "S"

isJack(code) == rankLabel(parseCard[code].rank) = "J"

\* the suit printed on the card, whatever the trump
printedSuit(code, trump) == suitCharFromCard(code)

effectiveSuit(code, trump) ==
  IF isJack(code) /\ suitCharFromCard(code) = leftBowerSuit(trump)
  THEN trump
  ELSE suitCharFromCard(code)

isRightBower(code, trump) == isJack(code) /\ suitCharFromCard(code) = trump

isLeftBower(code, trump) ==
  isJack(code) /\ suitCharFromCard(code) = leftBowerSuit(trump)

Range(seq) == {seq[i] : i \in 1..Len(seq)}

\* a hand that is taken to hold every suit
hasSuitAlways(hand, suit, trump) == TRUE

hasSuitInHand(hand, suit, trump) ==
  \E i \in 1..Len(hand) : effectiveSuit(hand[i], trump) = suit

\* Array.prototype.indexOf, 1-based; 0 when absent
IndexOf(seq, x) ==
  IF \E i \in 1..Len(seq) : seq[i] = x
  THEN CHOOSE i \in 1..Len(seq) : seq[i] = x /\ \A j \in 1..(i - 1) : seq[j] # x
  ELSE 0

\* slice + splice(idx, 1)
SpliceOut(seq, idx) ==
  [i \in 1..(Len(seq) - 1) |-> IF i < idx THEN seq[i] ELSE seq[i + 1]]

\* a hand that keeps the card
keepCard(hand, code) == hand

removeOneCard(hand, code) ==
  IF IndexOf(hand, code) = 0 THEN hand ELSE SpliceOut(hand, IndexOf(hand, code))

\* the first MaxPick cards of a hand
FirstCards(hand) ==
  {hand[i] : i \in 1..(IF Len(hand) < MaxPick THEN Len(hand) ELSE MaxPick)}

(***************************************************************************)
(* trickStrength / winnerOfTrick (Game.tsx 225-263)                        *)
(*                                                                         *)
(* parseCard's rank is the rank CHARACTER, so `150 + rank` is JavaScript   *)
(* string concatenation: the strength of a bower is the number 200 or 199, *)
(* the strength of any other card is a string such as "150A", "1009", "0K".*)
(* A JavaScript value is modelled as [num, n, r]: the number n, or the     *)
(* string made of the decimal digits of n followed by the character r.     *)
(***************************************************************************)
JsNum(n) == [num |-> TRUE, n |-> n, r |-> ""]
JsCat(n, r) == [num |-> FALSE, n |-> n, r |-> r]

\* UTF-16 code units of the characters that occur
CharCode(ch) ==
  CASE ch = "0" -> 48 [] ch = "1" -> 49 [] ch = "5" -> 53 [] ch = "9" -> 57
    [] ch = "A" -> 65 [] ch = "J" -> 74 [] ch = "K" -> 75 [] ch = "Q" -> 81
    [] ch = "T" -> 84

\* decimal digits of the numbers trickStrength concatenates to
Digits(n) ==
  CASE n = 150 -> <<"1", "5", "0">>
    [] n = 100 -> <<"1", "0", "0">>
    [] n = 0 -> <<"0">>

CodeUnits(v) ==
  LET chars == Digits(v.n) \o <<v.r>>
  IN [i \in 1..Len(chars) |-> CharCode(chars[i])]

\* a < b for strings: the first differing code unit decides, a proper prefix is less
LexLess(a, b) ==
  \E k \in 1..Len(b) :
    /\ \A j \in 1..(k - 1) : j <= Len(a) /\ a[j] = b[j]
    /\ \/ k = Len(a) + 1
       \/ k <= Len(a) /\ a[k] < b[k]

\* ToNumber of a string: a decimal numeral converts, anything else is NaN
IsNaN(v) == ~v.num /\ v.r # "9"
ToNumber(v) == IF v.num THEN v.n ELSE v.n * 10 + 9

\* the JavaScript relational operator a > b
JsGreater(a, b) ==
  IF ~a.num /\ ~b.num
  THEN LexLess(CodeUnits(b), CodeUnits(a))
  ELSE /\ ~IsNaN(a)
       /\ ~IsNaN(b)
       /\ ToNumber(a) > ToNumber(b)

trickStrength(code, leadSuit, trump) ==
  IF isRightBower(code, trump) THEN JsNum(200)
  ELSE IF isLeftBower(code, trump) THEN JsNum(199)
  ELSE IF effectiveSuit(code, trump) = trump THEN JsCat(150, parseCard[code].rank)
  ELSE IF effectiveSuit(code, trump) = leadSuit THEN JsCat(100, parseCard[code].rank)
  ELSE JsCat(0, parseCard[code].rank)

\* the forEach of winnerOfTrick over keys[i..], carrying bestSeat / bestScore
\* (score is bound by a singleton set, so that it is computed once per card)
RECURSIVE BestFrom(_, _, _, _, _, _, _)
BestFrom(cards, keys, i, trump, leadSuit, bestSeat, bestScore) ==
  IF i > Len(keys) THEN bestSeat
  ELSE CHOOSE seat \in
         {IF JsGreater(score, bestScore)
          THEN BestFrom(cards, keys, i + 1, trump, leadSuit, keys[i], score)
          ELSE BestFrom(cards, keys, i + 1, trump, leadSuit, bestSeat, bestScore)
            : score \in {trickStrength(cards[keys[i]], leadSuit, trump)}} : TRUE

\* keys is Object.keys(cards), the order in which the map is enumerated
winnerOfTrick(cards, keys, leadSeat, trump, leadSuit) ==
  BestFrom(cards, keys, 1, trump, leadSuit, leadSeat, JsNum(-1))

\* Object.keys of {...existingCards, [mySeat]: code}: the keys read from the
\* store in the order the store's map is enumerated, then the acting seat
Perms(S) ==
  {p \in [1..Cardinality(S) -> S] : \A i, j \in 1..Cardinality(S) : i # j => p[i] # p[j]}

KeyOrders(existingCards, mySeat) ==
  {p \o <<mySeat>> : p \in Perms(DOMAIN existingCards)}

(***************************************************************************)
(* State                                                                   *)
(***************************************************************************)
VARIABLES
  game,    \* the match record games/{gameId} (GameDoc)
  hands,   \* PlayerDoc.hand of games/{gameId}/players/{uid}, per uid
  view,    \* the React state `game` of the lagging client: the last snapshot it was handed
  lag,     \* number of commits to the match record since `view` was handed over
  dealt,   \* number of start-hand commits so far
  last     \* the last call that set an error or ran a transaction, and how it ended

vars == <<game, hands, view, lag, dealt, last>>

NoCards == [s \in {} |-> Null]
ZeroTeams == [NS |-> 0, EW |-> 0]

\* stale: the call was made from a snapshot that is not the committed record
Done(op, v, by, arg, res) ==
  [op |-> op, by |-> by, arg |-> arg, res |-> res, stale |-> v # game]

\* the seat a uid occupies in g, mySeat of Game.tsx
SeatOfUid(g, u) ==
  IF \E s \in Seat : g.seats[s] = u
  THEN CHOOSE s \in Seat : g.seats[s] = u
  ELSE Null

\* the snapshots a call is made from: an up-to-date client's, the lagging client's
Snapshots == {game, view}

\* tx.update / batch.update: the named fields are replaced, the others kept
Update(doc, fields) ==
  [f \in DOMAIN doc |-> IF f \in DOMAIN fields THEN fields[f] ELSE doc[f]]

\* a commit to the store; the lagging snapshot falls one commit further behind,
\* and is replaced by the committed record once it would be more than MaxLag behind
Commit(g2, h2) ==
  /\ game' = g2
  /\ hands' = h2
  /\ IF lag >= MaxLag
     THEN view' = g2 /\ lag' = 0
     ELSE view' = view /\ lag' = lag + 1

\* a call that ends without a write
NoCommit == UNCHANGED <<game, hands, view, lag>>

(***************************************************************************)
(* Home.createGame (Home.tsx 28-52): the record a game starts from.        *)
(* Fields createGame does not write are absent: Null, an empty list.       *)
(***************************************************************************)
newGame ==
  [status |-> "lobby",
   phase |-> Null,
   seats |-> [s \in Seat |-> IF s = "N" THEN "u1" ELSE Null],
   dealer |-> "N",
   turn |-> "N",
   score |-> ZeroTeams,
   handNumber |-> 1,
   upcard |-> Null,
   kitty |-> <<>>,
   trump |-> Null,
   makerSeat |-> Null,
   bidding |-> <<>>,
   currentTrick |-> <<>>,
   tricksTaken |-> ZeroTeams,
   trickWinners |-> <<>>,
   winnerTeam |-> Null]

Init ==
  /\ game = newGame
  /\ hands = [u \in Uids |-> <<>>]
  /\ view = newGame
  /\ lag = 0
  /\ dealt = 0
  /\ last = [op |-> "createGame", by |-> "u1", arg |-> "N", res |-> "ok", stale |-> FALSE]

(***************************************************************************)
(* onSnapshot (Game.tsx 465-483): the client is handed the committed record*)
(***************************************************************************)
Notify ==
  /\ view # game
  /\ view' = game
  /\ lag' = 0
  /\ UNCHANGED <<game, hands, dealt, last>>

(***************************************************************************)
(* claimSeat (Game.tsx 532-564)                                            *)
(***************************************************************************)
\* the claims submitted: each joiner claims one seat
ClaimInputs == { <<"u2", "E">>, <<"u3", "S">>, <<"u4", "W">> }

\* canClaim of renderSeat (441): the claim button is offered for a seat the
\* snapshot shows open, to a client the snapshot shows unseated
canClaim(v, uid, seat) == v.seats[seat] = Null /\ SeatOfUid(v, uid) = Null

\* a transaction that checks the seat only
claimSeatResultAnyActor(g, uid, seat) ==
  IF g.seats[seat] # Null THEN "Seat already taken" ELSE "ok"

claimSeatResult(g, uid, seat) ==
  IF g.seats[seat] # Null THEN "Seat already taken"
  ELSE IF \E s \in Seat : g.seats[s] = uid THEN "You already claimed a seat"
  ELSE "ok"

ClaimSeat(v, uid, seat) ==
  LET res == claimSeatResult(game, uid, seat)
  IN /\ canClaim(v, uid, seat)
     /\ IF res = "ok"
        THEN Commit([game EXCEPT !.seats[seat] = uid], hands)
        ELSE NoCommit
     /\ last' = Done("claimSeat", v, uid, seat, res)
     /\ UNCHANGED dealt

(***************************************************************************)
(* shuffle (lib/deal.ts 17-24) returns some permutation of the deck; the   *)
(* model draws it from NumDecks fixed permutations i |-> (i * stride + off)*)
(***************************************************************************)
Shuffles == << <<5, 0>>, <<7, 3>>, <<11, 8>>, <<13, 5>>, <<17, 2>> >>

ShuffleBy(p) ==
  [i \in 1..24 |-> createEuchreDeck[(((i - 1) * p[1] + p[2]) % 24) + 1]]

Decks == {ShuffleBy(Shuffles[k]) : k \in 1..NumDecks}

(***************************************************************************)
(* startHand (Game.tsx 566-649).  g is the snapshot the caller holds (the  *)
(* React state `game`); nothing is read from the store.  Lines 575-578     *)
(* name the snapshot `g`, which startHand does not bind: they are read as  *)
(* `game`, the only match record in scope.                                 *)
(***************************************************************************)
\* order: the four seats clockwise starting left of the dealer
DealOrder(dealer) ==
  [i \in 1..4 |-> SEATS[((SeatIdx[dealer] + i - 1) % 4) + 1]]

\* a deal that hands every seat the top five cards
DealtHandsTop(deck, dealer) == [s \in Seat |-> SubSeq(deck, 1, HandSize)]

\* hands[seat]: card c*4 + (position of seat in order), c = 0..4
DealtHands(deck, dealer) ==
  [s \in Seat |->
    LET p == CHOOSE i \in 1..4 : DealOrder(dealer)[i] = s
    IN [c \in 1..HandSize |-> deck[(c - 1) * 4 + p]]]

\* a start-hand that does not count the seats
startHandResultAnySeats(g) ==
  IF g.status = "finished" \/ winningTeam(g.score) # Null THEN "Game over" ELSE "ok"

startHandResult(g) ==
  IF \E s \in Seat : g.seats[s] = Null
  THEN "Need all 4 seats filled to start a hand."
  ELSE IF g.status = "finished" \/ winningTeam(g.score) # Null
  THEN "Game over"
  ELSE "ok"

startHandUpdate(g, deck) ==
  LET dealer == nextSeat(g.dealer)
  IN [status |-> "bidding",
      phase |-> "bidding_round_1",
      bidding |-> << [round |-> 1, passes |-> <<>>, orderedUpBy |-> Null] >>,
      trump |-> Null,
      makerSeat |-> Null,
      currentTrick |-> <<>>,
      tricksTaken |-> ZeroTeams,
      trickWinners |-> <<>>,
      dealer |-> dealer,
      turn |-> nextSeat(dealer),
      upcard |-> deck[4 * HandSize + 1],
      kitty |-> SubSeq(deck, 4 * HandSize + 2, 24),
      handNumber |-> g.handNumber + 1]

StartHand(g, deck) ==
  LET res == startHandResult(g)
  IN /\ res = "ok" => dealt < MaxDeals
     /\ IF res = "ok"
        THEN /\ Commit(Update(game, startHandUpdate(g, deck)),
                       [u \in Uids |->
                         IF SeatOfUid(g, u) # Null
                         THEN DealtHands(deck, nextSeat(g.dealer))[SeatOfUid(g, u)]
                         ELSE hands[u]])
             /\ dealt' = dealt + 1
        ELSE NoCommit /\ UNCHANGED dealt
     /\ last' = Done("startHand", g, Null, Null, res)

(***************************************************************************)
(* Bidding (Game.tsx 651-796).  The caller checks its snapshot v, then runs *)
(* a transaction: g is the record read by tx.get, mySeat the caller's seat.*)
(* A result other than "ok" names the guard that ended the transaction     *)
(* without a write.                                                        *)
(***************************************************************************)
\* g.bidding?.passes ?? []
PassesOf(g) == IF g.bidding = <<>> THEN <<>> ELSE g.bidding[1].passes

\* passes.includes(mySeat) ? passes : [...passes, mySeat]
NextPasses(g, mySeat) ==
  IF mySeat \in Range(PassesOf(g)) THEN PassesOf(g) ELSE Append(PassesOf(g), mySeat)

Bidding(round, passes, orderedUpBy) ==
  << [round |-> round, passes |-> passes, orderedUpBy |-> orderedUpBy] >>

\* a round-1 pass that any seat may make
bidPassRound1ResultAnySeat(g, mySeat) ==
  IF g.phase # "bidding_round_1" THEN "phase" ELSE "ok"

bidPassRound1Result(g, mySeat) ==
  IF g.phase # "bidding_round_1" THEN "phase"
  ELSE IF g.turn # mySeat THEN "turn"
  ELSE "ok"

\* a round-1 pass whose fourth pass turns the upcard down
bidPassRound1UpdateTurnsDown(g, mySeat) ==
  IF Len(NextPasses(g, mySeat)) >= 4
  THEN [phase |-> "bidding_round_2",
        bidding |-> Bidding(2, <<>>, Null),
        upcard |-> Null,
        turn |-> nextSeat(g.dealer)]
  ELSE [bidding |-> Bidding(1, NextPasses(g, mySeat), Null),
        turn |-> nextSeat(g.turn)]

\* a round-1 pass whose fourth pass keeps the passed set
bidPassRound1UpdateKeepsPasses(g, mySeat) ==
  IF Len(NextPasses(g, mySeat)) >= 4
  THEN [phase |-> "bidding_round_2",
        bidding |-> Bidding(2, NextPasses(g, mySeat), Null),
        turn |-> nextSeat(g.dealer)]
  ELSE [bidding |-> Bidding(1, NextPasses(g, mySeat), Null),
        turn |-> nextSeat(g.turn)]

bidPassRound1Update(g, mySeat) ==
  IF Len(NextPasses(g, mySeat)) >= 4
  THEN [phase |-> "bidding_round_2",
        bidding |-> Bidding(2, <<>>, Null),
        turn |-> nextSeat(g.dealer)]
  ELSE [bidding |-> Bidding(1, NextPasses(g, mySeat), Null),
        turn |-> nextSeat(g.turn)]

bidOrderUpResult(g, mySeat) ==
  IF g.phase # "bidding_round_1" THEN "phase"
  ELSE IF g.turn # mySeat THEN "turn"
  ELSE IF g.upcard = Null THEN "upcard"
  ELSE "ok"

\* an order-up that leaves the turn with the seat that ordered up
bidOrderUpUpdateOwnTurn(g, mySeat) ==
  [status |-> "bidding",
   phase |-> "dealer_discard",
   trump |-> suitCharFromCard(g.upcard),
   makerSeat |-> mySeat,
   bidding |-> Bidding(1, PassesOf(g), mySeat),
   turn |-> mySeat]

bidOrderUpUpdate(g, mySeat) ==
  [status |-> "bidding",
   phase |-> "dealer_discard",
   trump |-> suitCharFromCard(g.upcard),
   makerSeat |-> mySeat,
   bidding |-> Bidding(1, PassesOf(g), mySeat),
   turn |-> g.dealer]

bidPassRound2Result(g, mySeat) ==
  IF g.phase # "bidding_round_2" THEN "phase"
  ELSE IF g.turn # mySeat THEN "turn"
  ELSE IF mySeat = g.dealer THEN "Screw the dealer: dealer must choose a trump suit."
  ELSE "ok"

\* a round-2 pass that is not marked
bidPassRound2UpdateUnmarked(g, mySeat) ==
  IF Len(NextPasses(g, mySeat)) >= 3
  THEN [bidding |-> Bidding(2, PassesOf(g), Null),
        turn |-> g.dealer]
  ELSE [bidding |-> Bidding(2, PassesOf(g), Null),
        turn |-> nextSeat(g.turn)]

bidPassRound2Update(g, mySeat) ==
  IF Len(NextPasses(g, mySeat)) >= 3
  THEN [bidding |-> Bidding(2, NextPasses(g, mySeat), Null),
        turn |-> g.dealer]
  ELSE [bidding |-> Bidding(2, NextPasses(g, mySeat), Null),
        turn |-> nextSeat(g.turn)]

\* a round 2 in which no suit is barred
noForbiddenSuit(g) == Null

\* forbidden / forbiddenSuit (764, 779): the suit of the upcard
forbiddenSuit(g) == suitCharFromCard(g.upcard)

bidCallTrumpResult(g, mySeat, suit) ==
  IF g.phase # "bidding_round_2" THEN "phase"
  ELSE IF g.turn # mySeat THEN "turn"
  ELSE IF g.upcard = Null THEN "upcard"
  ELSE IF suit = forbiddenSuit(g)
  THEN "You can't choose the upcard suit in round 2."
  ELSE "ok"

\* a call-trump that names no maker
bidCallTrumpUpdateNoMaker(g, mySeat, suit) ==
  [status |-> "playing",
   phase |-> "playing",
   trump |-> suit,
   bidding |-> Bidding(2, PassesOf(g), Null),
   turn |-> nextSeat(g.dealer)]

\* a call-trump that sends the dealer to discard
bidCallTrumpUpdateToDiscard(g, mySeat, suit) ==
  [status |-> "bidding",
   phase |-> "dealer_discard",
   trump |-> suit,
   makerSeat |-> mySeat,
   bidding |-> Bidding(2, PassesOf(g), Null),
   turn |-> g.dealer]

bidCallTrumpUpdate(g, mySeat, suit) ==
  [status |-> "playing",
   phase |-> "playing",
   trump |-> suit,
   makerSeat |-> mySeat,
   bidding |-> Bidding(2, PassesOf(g), Null),
   turn |-> nextSeat(g.dealer)]

\* the caller's guards before the transaction: mySeat is its seat in the snapshot
MyTurnIn(v, phase) == v.phase = phase /\ v.seats[v.turn] # Null

\* a transaction on the match record alone
GameTx(op, v, mySeat, arg, res, upd) ==
  /\ IF res = "ok" THEN Commit(Update(game, upd), hands) ELSE NoCommit
  /\ last' = Done(op, v, mySeat, arg, res)
  /\ UNCHANGED dealt

BidPassRound1(v) ==
  /\ MyTurnIn(v, "bidding_round_1")
  /\ GameTx("bidPassRound1", v, v.turn, Null,
            bidPassRound1Result(game, v.turn), bidPassRound1Update(game, v.turn))

BidOrderUp(v) ==
  LET res == bidOrderUpResult(game, v.turn)
  IN /\ MyTurnIn(v, "bidding_round_1")
     /\ v.upcard # Null
     /\ GameTx("bidOrderUp", v, v.turn, Null, res,
               IF res = "ok" THEN bidOrderUpUpdate(game, v.turn) ELSE <<>>)

\* the caller's own check (723): the dealer is told it must choose, no transaction runs
BidPassRound2(v) ==
  /\ MyTurnIn(v, "bidding_round_2")
  /\ IF v.turn = v.dealer
     THEN /\ NoCommit
          /\ last' = Done("bidPassRound2", v, v.turn, Null,
                          "Screw the dealer: dealer must choose a trump suit.")
          /\ UNCHANGED dealt
     ELSE GameTx("bidPassRound2", v, v.turn, Null,
                 bidPassRound2Result(game, v.turn), bidPassRound2Update(game, v.turn))

\* the caller's own check (764): the upcard suit is refused, no transaction runs
BidCallTrump(v, suit) ==
  /\ MyTurnIn(v, "bidding_round_2")
  /\ v.upcard # Null
  /\ IF suit = forbiddenSuit(v)
     THEN /\ NoCommit
          /\ last' = Done("bidCallTrump", v, v.turn, suit,
                          "You can't choose the upcard suit in round 2.")
          /\ UNCHANGED dealt
     ELSE GameTx("bidCallTrump", v, v.turn, suit,
                 bidCallTrumpResult(game, v.turn, suit),
                 bidCallTrumpUpdate(game, v.turn, suit))

(***************************************************************************)
(* dealerPickupAndDiscard (Game.tsx 798-854)                               *)
(***************************************************************************)
\* the caller's guards on its snapshot (801-804): it is the dealer, and it is
\* the dealer's turn to discard
discardGuard(v, mySeat) ==
  /\ v.phase = "dealer_discard"
  /\ mySeat = v.dealer
  /\ v.turn = v.dealer
  /\ v.upcard # Null

\* a discard that does not look for the card among the six candidates
discardResultAnyCard(g, hand, discard) ==
  IF g.phase # "dealer_discard" THEN "phase"
  ELSE IF g.turn # g.dealer THEN "turn"
  ELSE IF g.upcard = Null THEN "upcard"
  ELSE IF g.seats[g.dealer] = Null THEN "Dealer missing"
  ELSE IF Len(hand) # 5 THEN "Dealer hand not 5 cards"
  ELSE "ok"

\* the transaction's guards; hand is the stored hand of the occupant of g.dealer
discardResult(g, hand, discard) ==
  IF g.phase # "dealer_discard" THEN "phase"
  ELSE IF g.turn # g.dealer THEN "turn"
  ELSE IF g.upcard = Null THEN "upcard"
  ELSE IF g.seats[g.dealer] = Null THEN "Dealer missing"
  ELSE IF Len(hand) # 5 THEN "Dealer hand not 5 cards"
  ELSE IF IndexOf(Append(hand, g.upcard), discard) = 0 THEN "Discard card not found"
  ELSE IF Len(SpliceOut(Append(hand, g.upcard),
                        IndexOf(Append(hand, g.upcard), discard))) # 5
  THEN "Resulting hand not 5 cards"
  ELSE "ok"

\* a discard that stores the dealer's six cards
discardKeepsSix(g, hand, discard) == Append(hand, g.upcard)

\* a discard that leaves the stored hand as it was
discardKeepsHand(g, hand, discard) == hand

\* combined.slice() with the discard spliced out
discardNextHand(g, hand, discard) ==
  SpliceOut(Append(hand, g.upcard), IndexOf(Append(hand, g.upcard), discard))

\* a discard that does not reach the kitty
discardUpdateLosesCard(g, discard) ==
  [status |-> "playing",
   phase |-> "playing",
   kitty |-> g.kitty,
   turn |-> nextSeat(g.dealer)]

\* a discard after which the dealer leads
discardUpdateDealerLeads(g, discard) ==
  [status |-> "playing",
   phase |-> "playing",
   kitty |-> Append(g.kitty, discard),
   turn |-> g.dealer]

discardUpdate(g, discard) ==
  [status |-> "playing",
   phase |-> "playing",
   kitty |-> Append(g.kitty, discard),
   turn |-> nextSeat(g.dealer)]

\* the cards a dealer names: the upcard, one of its first MaxPick cards, a kitty card
DiscardInputs(g, hand) ==
  FirstCards(hand)
    \cup (IF g.upcard = Null THEN {} ELSE {g.upcard})
    \cup (IF g.kitty = <<>> THEN {} ELSE {g.kitty[1]})

DealerPickupAndDiscard(v, mySeat, discard) ==
  LET dealerUid == game.seats[game.dealer]
      hand == IF dealerUid = Null THEN <<>> ELSE hands[dealerUid]
      res == discardResult(game, hand, discard)
  IN /\ v.seats[mySeat] # Null
     /\ discardGuard(v, mySeat)
     /\ IF res = "ok"
        THEN Commit(Update(game, discardUpdate(game, discard)),
                    [hands EXCEPT ![dealerUid] = discardNextHand(game, hand, discard)])
        ELSE NoCommit
     /\ last' = Done("dealerPickupAndDiscard", v, mySeat, discard, res)
     /\ UNCHANGED dealt

(***************************************************************************)
(* playCard (Game.tsx 856-1011)                                            *)
(***************************************************************************)
\* trick?.cards ?? {}
ExistingCards(g) == IF g.currentTrick = <<>> THEN NoCards ELSE g.currentTrick[1].cards

\* !trick || Object.keys(existingCards).length === 0
IsNewTrick(g) == g.currentTrick = <<>> \/ DOMAIN ExistingCards(g) = {}

LeadSeatOf(g, mySeat) == IF IsNewTrick(g) THEN mySeat ELSE g.currentTrick[1].leadSeat

\* a lead suit taken from the print on the led card
LeadSuitPrinted(g, code) ==
  IF IsNewTrick(g) THEN suitCharFromCard(code) ELSE g.currentTrick[1].leadSuit

LeadSuitOf(g, code) ==
  IF IsNewTrick(g) THEN effectiveSuit(code, g.trump) ELSE g.currentTrick[1].leadSuit

\* trick?.trickNumber ?? 1
TrickNumberOf(g) == IF g.currentTrick = <<>> THEN 1 ELSE g.currentTrick[1].trickNumber

\* a play-card that does not look for the card in the hand
playCardResultAnyCard(g, mySeat, hand, code) ==
  IF g.phase # "playing" THEN "phase"
  ELSE IF g.turn # mySeat THEN "turn"
  ELSE IF g.trump = Null THEN "Trump not set"
  ELSE IF mySeat \in DOMAIN ExistingCards(g) THEN "You already played this trick"
  ELSE IF /\ ~IsNewTrick(g)
          /\ hasSuitInHand(hand, LeadSuitOf(g, code), g.trump)
          /\ effectiveSuit(code, g.trump) # LeadSuitOf(g, code)
  THEN "Must follow suit"
  ELSE "ok"

playCardResult(g, mySeat, hand, code) ==
  IF g.phase # "playing" THEN "phase"
  ELSE IF g.turn # mySeat THEN "turn"
  ELSE IF g.trump = Null THEN "Trump not set"
  ELSE IF code \notin Range(hand) THEN "Card not in hand"
  ELSE IF mySeat \in DOMAIN ExistingCards(g) THEN "You already played this trick"
  ELSE IF /\ ~IsNewTrick(g)
          /\ hasSuitInHand(hand, LeadSuitOf(g, code), g.trump)
          /\ effectiveSuit(code, g.trump) # LeadSuitOf(g, code)
  THEN "Must follow suit"
  ELSE "ok"

NextCards(g, mySeat, code) ==
  [s \in DOMAIN ExistingCards(g) \cup {mySeat} |->
    IF s = mySeat THEN code ELSE ExistingCards(g)[s]]

\* a completed trick that is credited to no team
NextTakenNone(g, winner) == g.tricksTaken

NextTaken(g, winner) ==
  [NS |-> g.tricksTaken.NS + (IF teamOf(winner) = "NS" THEN 1 ELSE 0),
   EW |-> g.tricksTaken.EW + (IF teamOf(winner) = "EW" THEN 1 ELSE 0)]

\* end-of-hand scoring (929-948); nextTaken includes the trick just won
\* a scoring in which a euchre costs the makers two points
NextScoreForfeit(g, nextTaken) ==
  IF g.makerSeat = Null THEN g.score
  ELSE LET makerTeam == teamKeyForSeat(g.makerSeat)
           makerTricks == nextTaken[makerTeam]
       IN IF makerTricks >= 5 THEN [g.score EXCEPT ![makerTeam] = @ + 2]
          ELSE IF makerTricks >= 3 THEN [g.score EXCEPT ![makerTeam] = @ + 1]
          ELSE [g.score EXCEPT ![makerTeam] = @ - 2]

\* a scoring that asks four tricks for the makers' point
NextScoreFour(g, nextTaken) ==
  IF g.makerSeat = Null THEN g.score
  ELSE LET makerTeam == teamKeyForSeat(g.makerSeat)
           defenseTeam == otherTeam(makerTeam)
           makerTricks == nextTaken[makerTeam]
       IN IF makerTricks >= 5 THEN [g.score EXCEPT ![makerTeam] = @ + 2]
          ELSE IF makerTricks >= 4 THEN [g.score EXCEPT ![makerTeam] = @ + 1]
          ELSE [g.score EXCEPT ![defenseTeam] = @ + 2]

NextScore(g, nextTaken) ==
  IF g.makerSeat = Null THEN g.score
  ELSE LET makerTeam == teamKeyForSeat(g.makerSeat)
           defenseTeam == otherTeam(makerTeam)
           makerTricks == nextTaken[makerTeam]
       IN IF makerTricks >= 5 THEN [g.score EXCEPT ![makerTeam] = @ + 2]
          ELSE IF makerTricks >= 3 THEN [g.score EXCEPT ![makerTeam] = @ + 1]
          ELSE [g.score EXCEPT ![defenseTeam] = @ + 2]

\* the write to the match record; keys is the enumeration order of nextCards
playCardUpdate(g, mySeat, code, keys) ==
  LET nextCards == NextCards(g, mySeat, code)
      leadSeat == LeadSeatOf(g, mySeat)
      leadSuit == LeadSuitOf(g, code)
  IN IF Cardinality(DOMAIN nextCards) = 4
     THEN CHOOSE fields \in
            {LET nextTaken == NextTaken(g, winner)
                 nextScore == NextScore(g, nextTaken)
             IN IF TrickNumberOf(g) >= 5
                THEN [tricksTaken |-> nextTaken,
                      trickWinners |-> Append(g.trickWinners, winner),
                      score |-> nextScore,
                      status |-> IF winningTeam(nextScore) # Null
                                 THEN "finished" ELSE "lobby",
                      winnerTeam |-> winningTeam(nextScore),
                      phase |-> "lobby",
                      currentTrick |-> <<>>,
                      upcard |-> Null,
                      kitty |-> <<>>,
                      trump |-> Null,
                      makerSeat |-> Null,
                      bidding |-> <<>>]
                ELSE [tricksTaken |-> nextTaken,
                      trickWinners |-> Append(g.trickWinners, winner),
                      currentTrick |-> << [trickNumber |-> TrickNumberOf(g) + 1,
                                           leadSeat |-> winner,
                                           leadSuit |-> Null,
                                           cards |-> NoCards] >>,
                      turn |-> winner]
               : winner \in {winnerOfTrick(nextCards, keys, leadSeat, g.trump, leadSuit)}} :
            TRUE
     ELSE [currentTrick |-> << [trickNumber |-> TrickNumberOf(g),
                                leadSeat |-> leadSeat,
                                leadSuit |-> leadSuit,
                                cards |-> nextCards] >>,
           turn |-> nextSeat(g.turn)]

\* a card follows the rules for mySeat in g
Legal(g, hand, code) ==
  \/ IsNewTrick(g)
  \/ ~hasSuitInHand(hand, g.currentTrick[1].leadSuit, g.trump)
  \/ effectiveSuit(code, g.trump) = g.currentTrick[1].leadSuit

\* the cards a seat submits: its first MaxPick cards, its first legal card,
\* and one card it does not hold
PlayInputs(g, hand) ==
  FirstCards(hand)
    \cup (IF g.phase = "playing" /\ g.trump # Null /\ hand # <<>>
          THEN {hand[CHOOSE i \in 1..Len(hand) :
                   /\ Legal(g, hand, hand[i])
                   /\ \A j \in 1..(i - 1) : ~Legal(g, hand, hand[j])]}
          ELSE {})
    \cup {createEuchreDeck[CHOOSE i \in 1..24 :
            /\ createEuchreDeck[i] \notin Range(hand)
            /\ \A j \in 1..(i - 1) : createEuchreDeck[j] \in Range(hand)]}

\* the caller's guard on its snapshot (857-858), then the transaction
PlayCard(v, mySeat, code, keys) ==
  LET uid == v.seats[mySeat]
      hand == hands[uid]
      res == playCardResult(game, mySeat, hand, code)
  IN /\ v.seats[mySeat] # Null
     /\ v.phase = "playing"
     /\ IF res = "ok"
        THEN \E fields \in {playCardUpdate(game, mySeat, code, keys)} :
               Commit(Update(game, fields),
                      [hands EXCEPT ![uid] = removeOneCard(hand, code)])
        ELSE NoCommit
     /\ last' = Done("playCard", v, mySeat, code, res)
     /\ UNCHANGED dealt

(***************************************************************************)
(* Next-state relation                                                     *)
(***************************************************************************)
DoClaimSeat == \E v \in Snapshots, c \in ClaimInputs : ClaimSeat(v, c[1], c[2])

DoStartHand == \E v \in Snapshots, deck \in Decks : StartHand(v, deck)

DoBidPassRound1 == \E v \in Snapshots : BidPassRound1(v)

DoBidOrderUp == \E v \in Snapshots : BidOrderUp(v)

DoBidPassRound2 == \E v \in Snapshots : BidPassRound2(v)

DoBidCallTrump == \E v \in Snapshots, suit \in Suit : BidCallTrump(v, suit)

DoDiscard ==
  \E v \in Snapshots :
    \E d \in DiscardInputs(v, IF v.seats[v.dealer] = Null
                              THEN <<>> ELSE hands[v.seats[v.dealer]]) :
      DealerPickupAndDiscard(v, v.dealer, d)

\* the seats that submit a card: the turn seat of the snapshot and the seat after it
DoPlayCard ==
  \E v \in Snapshots :
    \E s \in {t \in {v.turn, nextSeat(v.turn)} : v.seats[t] # Null} :
      \E code \in (IF s = game.turn
                   THEN PlayInputs(game, hands[v.seats[s]])
                   ELSE FirstCards(hands[v.seats[s]])) :
        \E keys \in (IF Cardinality(DOMAIN ExistingCards(game)) = 3
                     THEN KeyOrders(ExistingCards(game), s)
                     ELSE {<<s>>}) :
          PlayCard(v, s, code, keys)

Next ==
  \/ Notify
  \/ DoClaimSeat
  \/ DoStartHand
  \/ DoBidPassRound1
  \/ DoBidOrderUp
  \/ DoBidPassRound2
  \/ DoBidCallTrump
  \/ DoDiscard
  \/ DoPlayCard

Spec == Init /\ [][Next]_vars


(***************************************************************************)
(* A match late in its life: the record as the 12th hand's last play-card  *)
(* leaves it (917-972) with N having led and won all five tricks, W having *)
(* played the last card, and the score one hand away from the target.      *)
(***************************************************************************)
lateGame ==
  Update(newGame,
         [phase |-> "lobby",
          seats |-> [N |-> "u1", E |-> "u2", S |-> "u3", W |-> "u4"],
          turn |-> "W",
          score |-> [NS |-> Target - 1, EW |-> Target - 2],
          handNumber |-> 13,
          tricksTaken |-> [NS |-> HandSize, EW |-> 0],
          trickWinners |-> <<"N", "N", "N", "N", "N">>])

InitLate ==
  /\ game = lateGame
  /\ hands = [u \in Uids |-> <<>>]
  /\ view = lateGame
  /\ lag = 0
  /\ dealt = 0
  /\ last = [op |-> "playCard", by |-> "W", arg |-> "TC", res |-> "ok", stale |-> FALSE]

\* with every seat taken no seat can be claimed (canClaim, 441)
NextLate ==
  \/ Notify
  \/ DoStartHand
  \/ DoBidPassRound1
  \/ DoBidOrderUp
  \/ DoBidPassRound2
  \/ DoBidCallTrump
  \/ DoDiscard
  \/ DoPlayCard

SpecLate == InitLate /\ [][NextLate]_vars

(***************************************************************************)
(* The late match with every client up to date and under fair scheduling:  *)
(* each call is made from the committed record (onSnapshot, 465-483, has   *)
(* handed it to the caller), a seat whose turn it is does not wait for     *)
(* ever (its client offers the bid, discard and card buttons of the turn   *)
(* seat), and between hands some client presses Start Hand (1035-1041).    *)
(***************************************************************************)
NowStartHand == \E deck \in Decks : StartHand(game, deck)

NowBidPassRound1 == BidPassRound1(game)

NowBidOrderUp == BidOrderUp(game)

NowBidPassRound2 == BidPassRound2(game)

NowBidCallTrump == \E suit \in Suit : BidCallTrump(game, suit)

NowDiscard ==
  \E d \in DiscardInputs(game, hands[game.seats[game.dealer]]) :
    DealerPickupAndDiscard(game, game.dealer, d)

NowPlayCard ==
  \E code \in PlayInputs(game, hands[game.seats[game.turn]]) :
    \E keys \in (IF Cardinality(DOMAIN ExistingCards(game)) = 3
                 THEN KeyOrders(ExistingCards(game), game.turn)
                 ELSE {<<game.turn>>}) :
      PlayCard(game, game.turn, code, keys)

NextNow ==
  \/ Notify
  \/ NowStartHand
  \/ NowBidPassRound1
  \/ NowBidOrderUp
  \/ NowBidPassRound2
  \/ NowBidCallTrump
  \/ NowDiscard
  \/ NowPlayCard

\* a bid, discard or play-card of the turn seat commits
TurnSeatActs ==
  /\ \/ NowBidPassRound1
     \/ NowBidOrderUp
     \/ NowBidPassRound2
     \/ NowBidCallTrump
     \/ NowDiscard
     \/ NowPlayCard
  /\ last'.res = "ok"

\* a start-hand commits between hands
LobbyStarts ==
  /\ game.phase = "lobby"
  /\ NowStartHand
  /\ last'.res = "ok"

SpecFair ==
  /\ InitLate
  /\ [][NextNow]_vars
  /\ WF_vars(TurnSeatActs)
  /\ WF_vars(LobbyStarts)

(***************************************************************************)
(* The lobby on its own: every client may press the claim button of every  *)
(* seat its snapshot offers (441, 532), in any order.                      *)
(***************************************************************************)
DoClaimAnySeat ==
  \E v \in Snapshots, uid \in Uids, seat \in Seat : ClaimSeat(v, uid, seat)

NextLobby ==
  \/ Notify
  \/ DoClaimAnySeat

SpecLobby == Init /\ [][NextLobby]_vars

(***************************************************************************)
(* The rules of the game as the specification states them                  *)
(***************************************************************************)
SameColour == [H |-> "D", D |-> "H", S |-> "C", C |-> "S"]

RuleRank == [c \in Cards |-> CHOOSE i \in 1..6 : <<"9", "T", "J", "Q", "K", "A">>[i] = parseCard[c].rank]

RuleRightBower(c, trump) == parseCard[c].rank = "J" /\ parseCard[c].suit = trump

RuleLeftBower(c, trump) == parseCard[c].rank = "J" /\ parseCard[c].suit = SameColour[trump]

RuleSuit(c, trump) == IF RuleLeftBower(c, trump) THEN trump ELSE parseCard[c].suit

\* right bower > left bower > trump by rank > lead suit by rank > the rest
RuleStrength(c, lead, trump) ==
  IF RuleRightBower(c, trump) THEN 100
  ELSE IF RuleLeftBower(c, trump) THEN 99
  ELSE IF RuleSuit(c, trump) = trump THEN 50 + RuleRank[c]
  ELSE IF RuleSuit(c, trump) = lead THEN 20 + RuleRank[c]
  ELSE 0

RuleWinner(cards, lead, trump) ==
  CHOOSE s \in DOMAIN cards :
    \A t \in DOMAIN cards :
      RuleStrength(cards[s], lead, trump) >= RuleStrength(cards[t], lead, trump)

\* a step that is the call op
Called(op) == last'.op = op /\ (last' # last \/ game' # game \/ hands' # hands)

\* the hand of the seat, as the store holds it
HandOf(seat) == IF game.seats[seat] = Null THEN <<>> ELSE hands[game.seats[seat]]

\* the step commits the fourth card of a trick
TrickCompletes ==
  /\ Called("playCard")
  /\ last'.res = "ok"
  /\ Len(game'.trickWinners) = Len(game.trickWinners) + 1

\* the four cards of the trick that the step completes
TrickCards == [s \in Seat |-> IF s = last'.by THEN last'.arg ELSE game.currentTrick[1].cards[s]]

TrickWinner == game'.trickWinners[Len(game'.trickWinners)]

(***************************************************************************)
(* C1  Follow-suit.  For every play-card that reaches the follow-suit      *)
(* check for a seat that is not leading (playing phase, the seat's turn,   *)
(* trump set, card in the hand read in the transaction, seat not yet in    *)
(* the trick): if the hand holds a card whose effective suit (left bower   *)
(* counted as trump) is the lead suit and the card is of another effective *)
(* suit, the call is rejected and nothing is written; otherwise the call   *)
(* is accepted and the card leaves the hand.                               *)
(***************************************************************************)
C1_Follows ==
  /\ Called("playCard")
  /\ game.phase = "playing"
  /\ game.turn = last'.by
  /\ game.trump # Null
  /\ last'.arg \in Range(HandOf(last'.by))
  /\ game.currentTrick # <<>>
  /\ DOMAIN game.currentTrick[1].cards # {}
  /\ last'.by \notin DOMAIN game.currentTrick[1].cards

C1_FollowSuit ==
  [][C1_Follows =>
       LET hand == HandOf(last'.by)
           lead == game.currentTrick[1].leadSuit
           holds == \E i \in 1..Len(hand) : RuleSuit(hand[i], game.trump) = lead
           follows == RuleSuit(last'.arg, game.trump) = lead
       IN IF holds /\ ~follows
          THEN last'.res = "Must follow suit" /\ UNCHANGED <<game, hands>>
          ELSE /\ last'.res = "ok"
               /\ Len(hands'[game.seats[last'.by]]) = Len(hand) - 1
               /\ game' # game]_vars

\* a seat holding the lead suit was refused a card of another suit
C1_Witness ==
  /\ last.op = "playCard"
  /\ last.res = "Must follow suit"
  /\ game.phase = "playing"
  /\ \E i \in 1..Len(HandOf(last.by)) :
       RuleSuit(HandOf(last.by)[i], game.trump) = game.currentTrick[1].leadSuit
  /\ RuleSuit(last.arg, game.trump) # game.currentTrick[1].leadSuit

\* a seat void in the lead suit played another suit
C1_WitnessVoid ==
  /\ last.op = "playCard"
  /\ last.res = "ok"
  /\ game.phase = "playing"
  /\ game.currentTrick # <<>>
  /\ last.by \in DOMAIN game.currentTrick[1].cards
  /\ game.currentTrick[1].leadSeat # last.by
  /\ RuleSuit(last.arg, game.trump) # game.currentTrick[1].leadSuit

(***************************************************************************)
(* C2  Trick winner.  When the fourth card of a trick commits, the seat    *)
(* appended to trickWinners and credited in tricksTaken is the seat        *)
(* holding the strongest card under right bower > left bower > trump by    *)
(* rank > lead suit by rank > all other cards.                             *)
(***************************************************************************)
C2_TrickWinner ==
  [][TrickCompletes =>
       LET winner == RuleWinner(TrickCards, game.currentTrick[1].leadSuit, game.trump)
           team == IF winner \in {"N", "S"} THEN "NS" ELSE "EW"
       IN /\ TrickWinner = winner
          /\ game'.tricksTaken = [game.tricksTaken EXCEPT ![team] = @ + 1]]_vars

(***************************************************************************)
(* C3  Bowers.  In every completed trick the seat that played the Jack of  *)
(* trump wins; if that card was not played, the seat that played the Jack  *)
(* of the same-colour suit wins.                                           *)
(***************************************************************************)
C3_BowersWin ==
  [][TrickCompletes =>
       \A s \in Seat :
         \/ /\ RuleRightBower(TrickCards[s], game.trump)
         \/ /\ RuleLeftBower(TrickCards[s], game.trump)
            /\ \A t \in Seat : ~RuleRightBower(TrickCards[t], game.trump)
         => TrickWinner = s]_vars

\* the step commits the fifth trick of a hand
HandCompletes == TrickCompletes /\ Len(game'.trickWinners) = HandSize

(***************************************************************************)
(* C4  Hand scoring.  When the fifth trick of a hand commits, with         *)
(* makerTricks the tricks taken by the maker seat's team: 5 adds exactly 2 *)
(* to the maker team, 3 or 4 adds exactly 1 to the maker team, fewer than  *)
(* 3 adds exactly 2 to the defending team; the other team's score is       *)
(* unchanged.                                                              *)
(***************************************************************************)
C4_HandScoring ==
  [][HandCompletes =>
       /\ game.makerSeat \in Seat
       /\ LET makers == IF game.makerSeat \in {"N", "S"} THEN "NS" ELSE "EW"
              defenders == IF makers = "NS" THEN "EW" ELSE "NS"
              makerTricks == game'.tricksTaken[makers]
          IN /\ makerTricks = 5 =>
                  game'.score = [game.score EXCEPT ![makers] = @ + 2]
             /\ makerTricks \in {3, 4} =>
                  game'.score = [game.score EXCEPT ![makers] = @ + 1]
             /\ makerTricks < 3 =>
                  game'.score = [game.score EXCEPT ![defenders] = @ + 2]]_vars

\* a hand has ended with the makers taking 3 or 4 tricks: one point
C4_Witness ==
  /\ last.op = "playCard"
  /\ last.res = "ok"
  /\ game.phase = "lobby"
  /\ Len(game.trickWinners) = HandSize
  /\ game.score.NS + game.score.EW = 1

\* a hand has ended with the makers euchred
C4_WitnessEuchre ==
  /\ last.op = "playCard"
  /\ game.phase = "lobby"
  /\ Len(game.trickWinners) = HandSize
  /\ game.score.NS + game.score.EW = 2
  /\ \E t \in TeamKey : game.tricksTaken[t] \in {3, 4} /\ game.score[t] = 2

\* a hand has ended with the makers taking all five tricks
C4_WitnessMarch ==
  /\ last.op = "playCard"
  /\ game.phase = "lobby"
  /\ Len(game.trickWinners) = HandSize
  /\ \E t \in TeamKey : game.tricksTaken[t] = 5 /\ game.score[t] = 2

\* some team has the points that end the match
AtTarget(score) == score.NS >= Target \/ score.EW >= Target

(***************************************************************************)
(* C5  Match termination is exact.  In every reachable state the match is  *)
(* finished if and only if some team's score is at least 10, and the       *)
(* recorded winner is then a team with at least 10.                        *)
(***************************************************************************)
C5_TerminalIffTarget ==
  /\ game.status = "finished" <=> AtTarget(game.score)
  /\ game.status = "finished" =>
       game.winnerTeam \in TeamKey /\ game.score[game.winnerTeam] >= Target

\* C5 without start-hand: every other call keeps termination exact
C5_ExactButStartHand ==
  [][(C5_TerminalIffTarget /\ last'.op # "startHand") => C5_TerminalIffTarget']_vars

(***************************************************************************)
(* C6  The terminal state is absorbing.  Once the match is finished with a *)
(* team at 10 or more, no call, a start-hand from a snapshot taken before  *)
(* the finishing commit included, changes the match record or any hand.    *)
(***************************************************************************)
C6_TerminalAbsorbing ==
  [][(game.status = "finished" /\ AtTarget(game.score)) =>
       UNCHANGED <<game, hands>>]_vars

\* C6 for calls made from the committed record: they are all refused
C6_FreshAbsorbing ==
  [][(game.status = "finished" /\ ~last'.stale) => UNCHANGED <<game, hands>>]_vars

(***************************************************************************)
(* C7  Idempotence under conflict.  A seat submits two play-cards from the *)
(* same snapshot of an open trick.  Once the first has committed (the last *)
(* call, made from the snapshot the lagging client still holds, one commit *)
(* behind), the second, made from that same snapshot by the same seat, is  *)
(* rejected: it changes neither the match record nor any hand.             *)
(***************************************************************************)
C7_SecondPlay ==
  /\ last.op = "playCard"
  /\ last.res = "ok"
  /\ ~last.stale
  /\ lag = 1
  /\ view.phase = "playing"
  /\ Called("playCard")
  /\ last'.stale
  /\ last'.by = last.by

C7_AtMostOneCommits ==
  [][C7_SecondPlay => last'.res # "ok" /\ UNCHANGED <<game, hands>>]_vars

\* C7 when the first play did not complete a trick that its seat won
C7_SameTrick ==
  [][(C7_SecondPlay /\ game.turn # last.by) =>
       last'.res # "ok" /\ UNCHANGED <<game, hands>>]_vars

\* the cards recorded in the open trick of the match record
TrickRecord == IF game.currentTrick = <<>> THEN NoCards ELSE game.currentTrick[1].cards

\* no card is at once in a hand and in the open trick
NoCardTwice ==
  \A u \in Uids : \A s \in DOMAIN TrickRecord : TrickRecord[s] \notin Range(hands[u])

\* the call was a play-card that left the store as it was
PlayRefused == last'.res # "ok" /\ UNCHANGED <<game, hands>>

\* the played card, and nothing else, has left the acting seat's hand
PlayRemoves ==
  /\ last'.res = "ok"
  /\ last'.arg \in Range(HandOf(last'.by))
  /\ \A u \in Uids \ {game.seats[last'.by]} : hands'[u] = hands[u]
  /\ \E i \in 1..Len(HandOf(last'.by)) :
       /\ HandOf(last'.by)[i] = last'.arg
       /\ hands'[game.seats[last'.by]] =
            SubSeq(HandOf(last'.by), 1, i - 1)
              \o SubSeq(HandOf(last'.by), i + 1, Len(HandOf(last'.by)))

(***************************************************************************)
(* C8  Atomic card move, as stated.  Every play-card either changes        *)
(* nothing or, in one commit, removes exactly the played card from the     *)
(* acting seat's hand and records it under that seat in currentTrick.cards;*)
(* no card is at once in a hand and in currentTrick.cards.                 *)
(***************************************************************************)
C8_AtomicMove ==
  /\ []NoCardTwice
  /\ [][Called("playCard") =>
          \/ PlayRefused
          \/ /\ PlayRemoves
             /\ game'.currentTrick # <<>>
             /\ last'.by \in DOMAIN game'.currentTrick[1].cards
             /\ game'.currentTrick[1].cards[last'.by] = last'.arg]_vars

(***************************************************************************)
(* C8  Atomic card move, amended.  Every play-card either changes nothing  *)
(* or, in one commit, removes exactly the played card from the acting      *)
(* seat's hand and either adds it under that seat to currentTrick.cards    *)
(* (first three cards of a trick) or resolves the trick (fourth card: the  *)
(* winner is appended to trickWinners and the trick's cards are cleared);  *)
(* no card is at once in a hand and in currentTrick.cards.                 *)
(***************************************************************************)
C8_AtomicMoveOrResolve ==
  /\ []NoCardTwice
  /\ [][Called("playCard") =>
          \/ PlayRefused
          \/ /\ PlayRemoves
             /\ IF Cardinality(DOMAIN TrickRecord) < 3
                THEN /\ game'.currentTrick # <<>>
                     /\ game'.currentTrick[1].cards =
                          [s \in DOMAIN TrickRecord \cup {last'.by} |->
                             IF s = last'.by THEN last'.arg ELSE TrickRecord[s]]
                     /\ game'.trickWinners = game.trickWinners
                ELSE /\ Len(game'.trickWinners) = Len(game.trickWinners) + 1
                     /\ \/ game'.currentTrick = <<>>
                        \/ game'.currentTrick[1].cards = NoCards]_vars

\* the fourth card of a trick has left its hand and the trick is cleared
C8_Witness ==
  /\ last.op = "playCard"
  /\ last.res = "ok"
  /\ game.phase = "playing"
  /\ game.currentTrick # <<>>
  /\ game.currentTrick[1].cards = NoCards
  /\ Len(game.trickWinners) >= 1
  /\ last.arg \notin Range(HandOf(last.by))

\* the preconditions of the call that the step makes, read in the store
\* as it is immediately before the step
FreshlyValid ==
  CASE last'.op = "claimSeat" ->
         game.seats[last'.arg] \in {Null, last'.by}
    [] last'.op = "startHand" ->
         /\ \A s \in Seat : game.seats[s] # Null
         /\ game.status # "finished"
    [] last'.op \in {"bidPassRound1", "bidOrderUp"} ->
         game.phase = "bidding_round_1" /\ game.turn = last'.by
    [] last'.op \in {"bidPassRound2", "bidCallTrump"} ->
         game.phase = "bidding_round_2" /\ game.turn = last'.by
    [] last'.op = "dealerPickupAndDiscard" ->
         /\ game.phase = "dealer_discard"
         /\ game.turn = game.dealer
         /\ last'.by = game.dealer
    [] last'.op = "playCard" ->
         /\ game.phase = "playing"
         /\ game.turn = last'.by
         /\ last'.arg \in Range(HandOf(last'.by))
    [] OTHER -> FALSE

(***************************************************************************)
(* C9  Fresh-state validation.  For each of the five mutating actions a    *)
(* write commits only if the action's preconditions (phase, turn, seat     *)
(* occupancy, match not finished, card membership) hold in the store as it *)
(* is immediately before the commit.                                       *)
(***************************************************************************)
C9_FreshValidation ==
  [][(game' # game \/ hands' # hands) => FreshlyValid]_vars

\* C9 for seat claims, bids and play-cards
C9_FreshButStartHand ==
  [][(/\ game' # game \/ hands' # hands
      /\ last'.op \notin {"startHand", "dealerPickupAndDiscard"}) => FreshlyValid]_vars

\* round 2, the three seats other than the dealer have passed, dealer to act
StuckDealer ==
  /\ game.phase = "bidding_round_2"
  /\ game.bidding # <<>>
  /\ game.bidding[1].round = 2
  /\ Range(game.bidding[1].passes) = Seat \ {game.dealer}
  /\ game.turn = game.dealer

\* the dealer's pass is refused and leaves the store as it was
C10_DealerPassRejected ==
  [][(StuckDealer /\ Called("bidPassRound2")) =>
       last'.res # "ok" /\ UNCHANGED <<game, hands>>]_vars

(***************************************************************************)
(* C10  Screw the dealer.  In round 2 with the three non-dealer seats      *)
(* recorded as passed and the dealer to act, a pass is always rejected and *)
(* leaves phase, turn and passes unchanged; from that state the only call  *)
(* that changes the match record is a call-trump by the dealer.            *)
(***************************************************************************)
C10_ScrewTheDealer ==
  [][StuckDealer =>
       /\ Called("bidPassRound2") => last'.res # "ok" /\ UNCHANGED <<game, hands>>
       /\ game' # game => last'.op = "bidCallTrump" /\ last'.by = game.dealer]_vars

\* the four bid calls and the phase each belongs to
BidPhase ==
  [bidPassRound1 |-> "bidding_round_1", bidOrderUp |-> "bidding_round_1",
   bidPassRound2 |-> "bidding_round_2", bidCallTrump |-> "bidding_round_2"]

\* the step is a bid call
CalledBid == \E op \in DOMAIN BidPhase : Called(op)

(***************************************************************************)
(* C11  Bid rejection.  For each bid call (round-1 pass, order-up, round-2 *)
(* pass, call-trump): if in the store the acting seat is not the turn seat *)
(* or the phase is not the call's phase, the call writes nothing: the      *)
(* match record and all hands are unchanged.                               *)
(***************************************************************************)
C11_BidRejection ==
  [][(CalledBid /\ (game.turn # last'.by \/ game.phase # BidPhase[last'.op])) =>
       last'.res # "ok" /\ UNCHANGED <<game, hands>>]_vars

\* a bid made from a snapshot one commit old was refused for the turn
C11_Witness ==
  /\ last.op \in DOMAIN BidPhase
  /\ last.res = "turn"
  /\ last.stale
  /\ game.phase = BidPhase[last.op]
  /\ game.turn # last.by

\* a bid made from a snapshot one commit old was refused for the phase
C11_WitnessPhase ==
  /\ last.op \in DOMAIN BidPhase
  /\ last.res = "phase"
  /\ game.phase # BidPhase[last.op]

\* the card of the call breaks follow-suit against the store's open trick
BreaksFollowSuit ==
  /\ game.trump # Null
  /\ DOMAIN TrickRecord # {}
  /\ last'.arg \in Cards
  /\ \E i \in 1..Len(HandOf(last'.by)) :
       RuleSuit(HandOf(last'.by)[i], game.trump) = game.currentTrick[1].leadSuit
  /\ RuleSuit(last'.arg, game.trump) # game.currentTrick[1].leadSuit

(***************************************************************************)
(* C12  Play-card rejection leaves state unchanged.  A play-card is        *)
(* rejected, with neither the match record nor any hand modified, whenever *)
(* in the store the card is not in the acting seat's hand, the seat        *)
(* already has a card in the current trick, the seat is not the turn seat, *)
(* the phase is not playing, or the card violates follow-suit.             *)
(***************************************************************************)
C12_PlayRejection ==
  [][(/\ Called("playCard")
      /\ \/ game.phase # "playing"
         \/ game.turn # last'.by
         \/ last'.arg \notin Range(HandOf(last'.by))
         \/ last'.by \in DOMAIN TrickRecord
         \/ BreaksFollowSuit) =>
       last'.res # "ok" /\ UNCHANGED <<game, hands>>]_vars

\* the turn seat named a card it does not hold and was refused
C12_Witness ==
  /\ last.op = "playCard"
  /\ last.res = "Card not in hand"
  /\ game.phase = "playing"
  /\ game.turn = last.by
  /\ last.arg \notin Range(HandOf(last.by))

\* a seat that has a card in the open trick played again and was refused
C12_WitnessPlayedTwice ==
  /\ last.op = "playCard"
  /\ last.res # "ok"
  /\ last.by \in DOMAIN TrickRecord

\* a play-card arrived after the hand had ended
C12_WitnessPhase ==
  /\ last.op = "playCard"
  /\ last.res = "phase"
  /\ game.phase # "playing"

\* the seat to the left: N -> E -> S -> W -> N
Clockwise == [N |-> "E", E |-> "S", S |-> "W", W |-> "N"]

\* the seat i places clockwise of seat
ClockwiseFrom(seat, i) ==
  CASE i = 0 -> seat
    [] i = 1 -> Clockwise[seat]
    [] i = 2 -> Clockwise[Clockwise[seat]]
    [] i = 3 -> Clockwise[Clockwise[Clockwise[seat]]]

\* the seats recorded in the open trick are the first ones clockwise from its lead seat
TrickInOrder ==
  game.currentTrick # <<>> =>
    /\ Cardinality(DOMAIN TrickRecord) <= 4
    /\ DOMAIN TrickRecord =
         {ClockwiseFrom(game.currentTrick[1].leadSeat, i) :
            i \in 0..(Cardinality(DOMAIN TrickRecord) - 1)}

(***************************************************************************)
(* C13  Turn order in play.  Every committed play that does not complete a *)
(* trick sets turn to the clockwise-next seat; a play that completes one   *)
(* of tricks 1-4 sets turn to that trick's winner, the seat that played    *)
(* its strongest card; and in every reachable state the seats in           *)
(* currentTrick.cards are exactly the consecutive clockwise seats starting *)
(* at leadSeat, at most 4 of them.                                         *)
(***************************************************************************)
C13_TurnOrder ==
  /\ []TrickInOrder
  /\ [][(Called("playCard") /\ last'.res = "ok") =>
          IF TrickCompletes
          THEN Len(game'.trickWinners) < HandSize =>
                 game'.turn = RuleWinner(TrickCards, game.currentTrick[1].leadSuit, game.trump)
          ELSE game'.turn = Clockwise[game.turn]]_vars

\* C13 with the winner the code recorded for the trick in place of the
\* seat of the strongest card
C13_TurnOrderRecorded ==
  /\ []TrickInOrder
  /\ [][(Called("playCard") /\ last'.res = "ok") =>
          IF TrickCompletes
          THEN Len(game'.trickWinners) < HandSize => game'.turn = TrickWinner
          ELSE game'.turn = Clockwise[game.turn]]_vars

\* three seats have played in turn and the fourth is to act
C13_Witness ==
  /\ game.phase = "playing"
  /\ Cardinality(DOMAIN TrickRecord) = 3
  /\ game.turn = ClockwiseFrom(game.currentTrick[1].leadSeat, 3)
  /\ Len(game.trickWinners) >= 1
  /\ game.currentTrick[1].leadSeat = game.trickWinners[Len(game.trickWinners)]

\* the four hands, the upcard and the kitty, laid end to end
Table ==
  HandOf("N") \o HandOf("E") \o HandOf("S") \o HandOf("W")
    \o (IF game.upcard = Null THEN <<>> ELSE <<game.upcard>>) \o game.kitty

\* 5 cards a hand, 3 in the kitty, an upcard, and each of the 24 cards once
DealPartition ==
  /\ \A s \in Seat : Len(HandOf(s)) = 5
  /\ Len(game.kitty) = 3
  /\ game.upcard \in Cards
  /\ Len(Table) = 24
  /\ Range(Table) = Cards

(***************************************************************************)
(* C14  Deal partition.  After every committed start-hand the four hands   *)
(* hold exactly 5 cards each, the kitty exactly 3, and the hands, the      *)
(* upcard and the kitty are pairwise disjoint with union the full 24-card  *)
(* deck; also when two start-hands are committed one upon the other.       *)
(***************************************************************************)
C14_DealPartition ==
  [][(Called("startHand") /\ last'.res = "ok") => DealPartition']_vars

\* a second start-hand, made from the snapshot the first was made from, has committed
C14_Witness ==
  /\ last.op = "startHand"
  /\ last.res = "ok"
  /\ last.stale
  /\ dealt = 2
  /\ game.phase = "bidding_round_1"
  /\ DealPartition

(***************************************************************************)
(* C15  Score monotonicity.  Neither team's score ever decreases, and a    *)
(* score changes only in the commit of the fourth card of a hand's fifth   *)
(* trick.                                                                  *)
(***************************************************************************)
C15_ScoreMonotone ==
  [][game'.score # game.score =>
       /\ \A t \in TeamKey : game'.score[t] >= game.score[t]
       /\ HandCompletes
       /\ Cardinality(DOMAIN TrickRecord) = 3
       /\ Len(game.trickWinners) = 4]_vars

\* the second hand of the match has been scored on top of the first
C15_Witness ==
  /\ last.op = "playCard"
  /\ game.phase = "lobby"
  /\ game.handNumber = 3
  /\ Len(game.trickWinners) = HandSize
  /\ game.score.NS + game.score.EW >= 3

\* the phases of a hand in progress
HandPhases == {"bidding_round_1", "bidding_round_2", "dealer_discard", "playing"}

\* lobby -> bidding_round_1 -> (dealer_discard | bidding_round_2) -> playing -> lobby;
\* a match that has dealt no hand yet has no phase and counts as lobby
PhaseFollows(p, q) ==
  \/ p \in {Null, "lobby"} /\ q = "bidding_round_1"
  \/ p = "bidding_round_1" /\ q \in {"dealer_discard", "bidding_round_2"}
  \/ p = "bidding_round_2" /\ q = "playing"
  \/ p = "dealer_discard" /\ q = "playing"
  \/ p = "playing" /\ q = "lobby"

\* the step keeps to the order of the phases
InPhaseOrder ==
  /\ game'.phase # game.phase => PhaseFollows(game.phase, game'.phase)
  /\ (game.phase \in HandPhases /\ game'.handNumber # game.handNumber) => HandCompletes
  /\ (game.phase \in HandPhases /\ game'.phase \notin HandPhases) => HandCompletes
  /\ (Called("startHand") /\ last'.res = "ok") => game.phase \notin HandPhases

(***************************************************************************)
(* C16  Phase ordering.  The phase changes only along lobby ->             *)
(* bidding_round_1 -> (dealer_discard | bidding_round_2) -> playing ->     *)
(* lobby; a hand that has been dealt is left only by the commit that       *)
(* completes its fifth trick, and start-hand never commits while the phase *)
(* is bidding_round_1, bidding_round_2, dealer_discard or playing.         *)
(***************************************************************************)
C16_PhaseOrdering == [][InPhaseOrder]_vars

\* C16 for every call but start-hand
C16_OrderButStartHand == [][last'.op # "startHand" => InPhaseOrder]_vars

(***************************************************************************)
(* C17  Discard authorization.  A dealer-discard commits only when, in the *)
(* store, the phase is dealer_discard, turn = dealer and the submitting    *)
(* actor occupies the dealer seat; a submission by any other actor changes *)
(* neither the dealer's hand nor the match record.                         *)
(***************************************************************************)
C17_DiscardByDealer ==
  [][(Called("dealerPickupAndDiscard") /\ (game' # game \/ hands' # hands)) =>
       /\ game.phase = "dealer_discard"
       /\ game.turn = game.dealer
       /\ last'.by = game.dealer]_vars

\* C17 without the actor: a discard commits only in dealer_discard on the dealer's turn
C17_DiscardInPhase ==
  [][(Called("dealerPickupAndDiscard") /\ (game' # game \/ hands' # hands)) =>
       /\ game.phase = "dealer_discard"
       /\ game.turn = game.dealer]_vars

(***************************************************************************)
(* C18  Illegal discard.  A dealer-discard is rejected with no write to    *)
(* the dealer's hand or the match record (phase stays dealer_discard, the  *)
(* kitty keeps its 3 cards) when the dealer's stored hand does not have    *)
(* exactly 5 cards or the named card is not one of the 6 candidates, the 5 *)
(* stored cards and the upcard.                                            *)
(***************************************************************************)
C18_IllegalDiscard ==
  [][(/\ Called("dealerPickupAndDiscard")
      /\ \/ Len(HandOf(game.dealer)) # 5
         \/ last'.arg \notin (Range(HandOf(game.dealer)) \cup {game.upcard})) =>
       last'.res # "ok" /\ UNCHANGED <<game, hands>>]_vars

\* the dealer named a kitty card and was refused
C18_Witness ==
  /\ last.op = "dealerPickupAndDiscard"
  /\ last.res = "Discard card not found"
  /\ last.by = game.dealer
  /\ game.phase = "dealer_discard"
  /\ Len(game.kitty) = 3
  /\ Len(HandOf(game.dealer)) = 5
  /\ last.arg \notin (Range(HandOf(game.dealer)) \cup {game.upcard})

\* a dealer in dealer_discard whose stored hand is not of 5 cards
C18_ShortHand ==
  /\ game.phase = "dealer_discard"
  /\ Len(HandOf(game.dealer)) # 5

\* trump as the store holds it agrees with the way it was fixed
TrumpAgrees ==
  (game.trump # Null /\ game.upcard # Null /\ game.bidding # <<>>) =>
    /\ game.bidding[1].round = 2 => game.trump # parseCard[game.upcard].suit
    /\ game.bidding[1].round = 1 => game.trump = parseCard[game.upcard].suit

(***************************************************************************)
(* C19  Round-2 trump exclusion.  A call-trump naming the upcard's suit is *)
(* rejected with no state change; in every reachable state where trump was *)
(* fixed by a round-2 call it differs from the suit of the upcard, and     *)
(* where it was fixed by order-up it equals the suit of the upcard.        *)
(***************************************************************************)
C19_TrumpExclusion ==
  /\ []TrumpAgrees
  /\ [][(/\ Called("bidCallTrump")
         /\ game.upcard # Null
         /\ last'.arg = parseCard[game.upcard].suit) =>
          last'.res # "ok" /\ UNCHANGED <<game, hands>>]_vars

\* the turn seat called the upcard's suit in round 2 and was refused
C19_Witness ==
  /\ last.op = "bidCallTrump"
  /\ last.res # "ok"
  /\ game.phase = "bidding_round_2"
  /\ game.turn = last.by
  /\ last.arg = parseCard[game.upcard].suit

\* trump stands as called in round 2
C19_WitnessCalled ==
  /\ game.trump # Null
  /\ game.bidding # <<>>
  /\ game.bidding[1].round = 2
  /\ game.phase = "playing"

\* trump stands as ordered up
C19_WitnessOrdered ==
  /\ game.trump # Null
  /\ game.bidding # <<>>
  /\ game.bidding[1].round = 1
  /\ game.bidding[1].orderedUpBy \in Seat

\* the seats the record shows taken, and the seat a uid is shown in
Occupied(seat) == game.seats[seat] # Null

\* no actor is recorded in two seats
OneSeatEach ==
  \A s, t \in Seat : (Occupied(s) /\ game.seats[s] = game.seats[t]) => s = t

(***************************************************************************)
(* C20  Seat claims.  A seat-claim is rejected, with nothing written, when *)
(* the seat is already occupied or the actor already holds a seat; under   *)
(* every interleaving of claims (two actors claiming one seat, one actor   *)
(* claiming two seats) no actor occupies two seats and the occupant of an  *)
(* occupied seat never changes afterwards.                                 *)
(***************************************************************************)
C20_SeatClaims ==
  /\ []OneSeatEach
  /\ [][\A s \in Seat : Occupied(s) => game'.seats[s] = game.seats[s]]_vars
  /\ [][(/\ Called("claimSeat")
         /\ \/ Occupied(last'.arg)
            \/ \E s \in Seat : game.seats[s] = last'.by) =>
          last'.res # "ok" /\ UNCHANGED <<game, hands>>]_vars

\* two actors claimed one seat: the later claim met the earlier occupant
C20_Witness ==
  /\ last.op = "claimSeat"
  /\ last.res = "Seat already taken"
  /\ Occupied(last.arg)
  /\ game.seats[last.arg] # last.by
  /\ SeatOfUid(game, last.by) = Null

\* one actor claimed two seats: the second claim found the actor seated
C20_WitnessTwoSeats ==
  /\ last.op = "claimSeat"
  /\ last.res = "You already claimed a seat"
  /\ ~Occupied(last.arg)
  /\ SeatOfUid(game, last.by) \in Seat \ {last.arg}

\* all four seats taken, by four actors
C20_WitnessFull ==
  /\ \A s \in Seat : Occupied(s)
  /\ Cardinality({game.seats[s] : s \in Seat}) = 4

\* a start-hand that committed
Dealt == Called("startHand") /\ last'.res = "ok"

(***************************************************************************)
(* C21  Start-hand precondition.  While any of the seats N, E, S, W is     *)
(* unoccupied in the store, a start-hand does not commit: no hand is dealt *)
(* and phase, dealer, turn and handNumber keep their values.               *)
(***************************************************************************)
C21_StartNeedsSeats ==
  [][(Called("startHand") /\ \E s \in Seat : ~Occupied(s)) =>
       /\ last'.res # "ok"
       /\ UNCHANGED <<game, hands>>]_vars

\* a start-hand was refused in a lobby with an open seat
C21_Witness ==
  /\ last.op = "startHand"
  /\ last.res = "Need all 4 seats filled to start a hand."
  /\ \E s \in Seat : ~Occupied(s)
  /\ game.phase = Null
  /\ game.handNumber = 1

\* the cards the match record shows to every client
RecordCards ==
  (IF game.upcard = Null THEN {} ELSE {game.upcard})
    \cup Range(game.kitty)
    \cup {TrickRecord[s] : s \in DOMAIN TrickRecord}

\* the cards held in the private hand records
HandCards == UNION {Range(hands[u]) : u \in Uids}

\* the uid whose hand record the call op, made by seat by, is to write
WritesHandOf(op, by) ==
  CASE op = "startHand" -> {game.seats[s] : s \in Seat}
    [] op = "dealerPickupAndDiscard" -> {game.seats[game.dealer]}
    [] op = "playCard" -> {game.seats[by]}
    [] OTHER -> {}

\* a step writes no hand record but that of the seat's own occupant
OwnHandWrites ==
  \A u \in Uids : hands'[u] # hands[u] => u \in WritesHandOf(last'.op, last'.by)

\* the upcard is in a hand only once the dealer has picked it up
UpcardPickedUp ==
  game.upcard \in HandCards =>
    /\ game.upcard \in Range(HandOf(game.dealer))
    /\ \A s \in Seat \ {game.dealer} : game.upcard \notin Range(HandOf(s))
    /\ game.phase \notin {"bidding_round_1", "bidding_round_2", "dealer_discard"}
    /\ game.bidding # <<>> /\ game.bidding[1].orderedUpBy \in Seat

(***************************************************************************)
(* C22  Hand privacy, as stated.  In every reachable state the cards of    *)
(* the match record (upcard, kitty, currentTrick.cards) are disjoint from  *)
(* the cards of every private hand record, and every step writes hands     *)
(* only to the hand record of the seat's own occupant.                     *)
(***************************************************************************)
C22_HandPrivacy ==
  /\ [](RecordCards \cap HandCards = {})
  /\ [][OwnHandWrites]_vars

(***************************************************************************)
(* C22  Hand privacy, amended.  The kitty and currentTrick.cards are       *)
(* disjoint from every hand; the upcard is in no hand until the dealer has *)
(* picked it up after an order-up, and then in the dealer's hand only;     *)
(* every step writes hands only to the record of the seat's own occupant.  *)
(***************************************************************************)
C22_HandPrivacyButUpcard ==
  /\ []((RecordCards \ {game.upcard}) \cap HandCards = {})
  /\ []UpcardPickedUp
  /\ [][OwnHandWrites]_vars

\* the dealer holds the upcard, which the record still shows
C22_Witness ==
  /\ game.phase = "playing"
  /\ game.upcard \in Range(HandOf(game.dealer))
  /\ last.op = "dealerPickupAndDiscard"
  /\ last.res = "ok"

\* a card has been played to the trick and a card discarded to the kitty
C22_WitnessPlayed ==
  /\ DOMAIN TrickRecord # {}
  /\ Len(game.kitty) = 4
  /\ game.upcard \notin HandCards

\* the number of the trick the step completes
CompletedTrick == game.currentTrick[1].trickNumber

\* the team of a seat, as the rules have it: partners sit across
RuleTeam == [N |-> "NS", S |-> "NS", E |-> "EW", W |-> "EW"]

\* the bookkeeping of a completed trick won by seat w
TrickBookedFor(w) ==
  /\ CompletedTrick \in 1..HandSize
  /\ game'.trickWinners = Append(game.trickWinners, w)
  /\ \A t \in TeamKey :
       game'.tricksTaken[t] = game.tricksTaken[t] + (IF t = RuleTeam[w] THEN 1 ELSE 0)
  /\ IF CompletedTrick < HandSize
     THEN /\ game'.currentTrick =
               << [trickNumber |-> CompletedTrick + 1, leadSeat |-> w,
                   leadSuit |-> Null, cards |-> NoCards] >>
          /\ game'.score = game.score
          /\ game'.phase = "playing"
     ELSE /\ game'.currentTrick = <<>>
          /\ game'.phase = "lobby"
          /\ game'.score.NS + game'.score.EW > game.score.NS + game.score.EW

(***************************************************************************)
(* C23  Trick completion.  When the 4th card of trick k (k in 1..4)        *)
(* commits, the tricksTaken of the team of the winner, the seat that       *)
(* played the strongest card, increases by exactly 1 and the other team's  *)
(* is unchanged, the winner is appended to trickWinners, and the next      *)
(* trick is created with trickNumber = k+1, leadSeat = winner, leadSuit =  *)
(* null and no cards; when the 4th card of trick 5 commits, hand scoring   *)
(* runs instead and no 6th trick is created.                               *)
(***************************************************************************)
C23_TrickCompletion ==
  [][TrickCompletes =>
       TrickBookedFor(RuleWinner(TrickCards, game.currentTrick[1].leadSuit, game.trump))]_vars

\* C23 with the winner the code computed for the trick in place of the
\* seat of the strongest card
C23_CompletionRecorded ==
  [][TrickCompletes => TrickBookedFor(TrickWinner)]_vars

\* the second trick is open, led by the winner of the first
C23_Witness ==
  /\ game.phase = "playing"
  /\ Len(game.trickWinners) = 1
  /\ game.currentTrick # <<>>
  /\ game.currentTrick[1].trickNumber = 2
  /\ game.currentTrick[1].leadSeat = game.trickWinners[1]
  /\ game.currentTrick[1].cards = NoCards
  /\ game.tricksTaken[RuleTeam[game.trickWinners[1]]] = 1

\* the fifth trick has been completed and the hand scored
C23_WitnessFifth ==
  /\ last.op = "playCard"
  /\ last.res = "ok"
  /\ Len(game.trickWinners) = HandSize
  /\ game.currentTrick = <<>>
  /\ game.phase = "lobby"

\* a dealer-discard that committed
Discarded == Called("dealerPickupAndDiscard") /\ last'.res = "ok"

\* the four hands and the kitty, laid end to end
HandsAndKitty ==
  HandOf("N") \o HandOf("E") \o HandOf("S") \o HandOf("W") \o game.kitty

(***************************************************************************)
(* C24  Discard effect.  A committed dealer-discard of card d, one of the  *)
(* dealer's 5 stored cards or the upcard, leaves the dealer's hand equal   *)
(* to the 6 candidates minus d (exactly 5 cards) and the kitty equal to    *)
(* the previous kitty plus d (exactly 4 cards); afterwards the four hands  *)
(* and the kitty are pairwise disjoint and together are exactly the 24     *)
(* cards of the deck, and the other three hands are unchanged.             *)
(***************************************************************************)
C24_DiscardEffect ==
  [][Discarded =>
       LET d == last'.arg
           six == Range(HandOf(game.dealer)) \cup {game.upcard}
       IN /\ d \in six
          /\ Cardinality(six) = 6
          /\ Len(HandOf(game.dealer)') = 5
          /\ Range(HandOf(game.dealer)') = six \ {d}
          /\ game'.kitty = Append(game.kitty, d)
          /\ Len(game'.kitty) = 4
          /\ \A s \in Seat \ {game.dealer} : HandOf(s)' = HandOf(s)
          /\ Len(HandsAndKitty') = 24
          /\ Range(HandsAndKitty') = Cards]_vars

\* the dealer kept the upcard and discarded a card of the hand
C24_Witness ==
  /\ last.op = "dealerPickupAndDiscard"
  /\ last.res = "ok"
  /\ last.arg # game.upcard
  /\ game.kitty[4] = last.arg
  /\ game.upcard \in Range(HandOf(game.dealer))
  /\ last.arg \notin Range(HandOf(game.dealer))

\* the dealer discarded the upcard itself
C24_WitnessUpcard ==
  /\ last.op = "dealerPickupAndDiscard"
  /\ last.res = "ok"
  /\ last.arg = game.upcard
  /\ game.kitty[4] = game.upcard

\* the record holds the first trick of a hand, not yet led: no trick record
\* (read by play-card as trick 1 with no cards, led by the seat that plays),
\* or a trick record numbered 1 with no cards whose lead is seat
FirstTrickFor(seat) ==
  /\ game.trickWinners = <<>>
  /\ game.tricksTaken = ZeroTeams
  /\ game.turn = seat
  /\ \/ game.currentTrick = <<>>
     \/ /\ game.currentTrick[1].trickNumber = 1
        /\ game.currentTrick[1].leadSeat = seat
        /\ game.currentTrick[1].cards = NoCards

\* the step commits the first card of the first trick of a hand
FirstLead ==
  /\ Called("playCard")
  /\ last'.res = "ok"
  /\ game.trickWinners = <<>>
  /\ DOMAIN TrickRecord = {}

(***************************************************************************)
(* C25  Discard success transition.  A committed dealer-discard sets phase *)
(* to playing and turn to the seat left of the dealer, and leaves the      *)
(* trick state at trickNumber = 1, leadSeat = left of dealer, no cards     *)
(* played: the first card committed after it opens trick 1 with the seat   *)
(* left of the dealer as leadSeat.                                         *)
(***************************************************************************)
C25_DiscardTransition ==
  /\ [][Discarded =>
          /\ game'.phase = "playing"
          /\ game'.status = "playing"
          /\ game'.turn = Clockwise[game.dealer]
          /\ game'.dealer = game.dealer
          /\ FirstTrickFor(Clockwise[game.dealer])']_vars
  /\ [][(FirstLead /\ game.bidding # <<>> /\ game.bidding[1].orderedUpBy \in Seat) =>
          /\ last'.by = Clockwise[game.dealer]
          /\ game'.currentTrick[1].trickNumber = 1
          /\ game'.currentTrick[1].leadSeat = Clockwise[game.dealer]
          /\ DOMAIN game'.currentTrick[1].cards = {last'.by}]_vars

\* the discard has committed and the seat left of the dealer is to lead
C25_Witness ==
  /\ last.op = "dealerPickupAndDiscard"
  /\ last.res = "ok"
  /\ game.phase = "playing"
  /\ game.turn = Clockwise[game.dealer]
  /\ DOMAIN TrickRecord = {}

\* the seat left of the dealer has led trick 1 after a discard
C25_WitnessLed ==
  /\ last.op = "playCard"
  /\ last.res = "ok"
  /\ game.bidding # <<>> /\ game.bidding[1].orderedUpBy \in Seat
  /\ game.currentTrick # <<>>
  /\ game.currentTrick[1].trickNumber = 1
  /\ DOMAIN TrickRecord = {Clockwise[game.dealer]}

\* the call op committed
Committed(op) == Called(op) /\ last'.res = "ok"

\* the seats marked as passed in the bidding record
Passed == IF game.bidding = <<>> THEN {} ELSE Range(game.bidding[1].passes)

(***************************************************************************)
(* C26  Order-up transition.  A committed order-up, made by the turn seat  *)
(* in bidding_round_1, sets trump to the suit of the upcard, makerSeat to  *)
(* the acting seat, phase to dealer_discard and turn to the dealer, also   *)
(* when the acting seat is the dealer; the hands, kitty, upcard, dealer    *)
(* and score are unchanged.                                                *)
(***************************************************************************)
C26_OrderUp ==
  [][Committed("bidOrderUp") =>
       /\ game.phase = "bidding_round_1"
       /\ game.turn = last'.by
       /\ game'.trump = parseCard[game.upcard].suit
       /\ game'.makerSeat = last'.by
       /\ game'.phase = "dealer_discard"
       /\ game'.turn = game.dealer
       /\ hands' = hands
       /\ game'.kitty = game.kitty
       /\ game'.upcard = game.upcard
       /\ game'.dealer = game.dealer
       /\ game'.score = game.score]_vars

\* a seat other than the dealer ordered up and the turn went to the dealer
C26_Witness ==
  /\ last.op = "bidOrderUp"
  /\ last.res = "ok"
  /\ last.by # game.dealer
  /\ game.makerSeat = last.by
  /\ game.phase = "dealer_discard"
  /\ game.turn = game.dealer

\* the dealer ordered up
C26_WitnessDealer ==
  /\ last.op = "bidOrderUp"
  /\ last.res = "ok"
  /\ last.by = game.dealer
  /\ game.makerSeat = game.dealer
  /\ game.phase = "dealer_discard"

(***************************************************************************)
(* C27  Round-1 pass.  A committed pass, made by the turn seat in          *)
(* bidding_round_1, adds the seat to the passed set and advances turn to   *)
(* the clockwise-next seat, unless it is the 4th pass: then the passed set *)
(* is cleared, phase becomes bidding_round_2 and turn is the seat left of  *)
(* the dealer; trump and makerSeat remain null.                            *)
(***************************************************************************)
C27_PassRound1 ==
  [][Committed("bidPassRound1") =>
       /\ game.phase = "bidding_round_1"
       /\ game.turn = last'.by
       /\ game'.trump = Null /\ game.trump = Null
       /\ game'.makerSeat = Null /\ game.makerSeat = Null
       /\ IF Cardinality(Passed \cup {last'.by}) = 4
          THEN /\ Passed' = {}
               /\ game'.phase = "bidding_round_2"
               /\ game'.turn = Clockwise[game.dealer]
          ELSE /\ Passed' = Passed \cup {last'.by}
               /\ Cardinality(Passed') = Cardinality(Passed) + 1
               /\ game'.phase = "bidding_round_1"
               /\ game'.turn = Clockwise[game.turn]]_vars

\* a first pass has been marked
C27_Witness ==
  /\ last.op = "bidPassRound1"
  /\ last.res = "ok"
  /\ game.phase = "bidding_round_1"
  /\ Passed = {last.by}
  /\ game.turn = Clockwise[last.by]

\* the fourth pass, the dealer's, opened round 2
C27_WitnessFourth ==
  /\ last.op = "bidPassRound1"
  /\ last.res = "ok"
  /\ last.by = game.dealer
  /\ game.phase = "bidding_round_2"
  /\ Passed = {}
  /\ game.turn = Clockwise[game.dealer]

\* what the passed set of round 2 may hold
Round2Passes ==
  (game.bidding # <<>> /\ game.bidding[1].round = 2) =>
    /\ game.dealer \notin Passed
    /\ Cardinality(Passed) <= 3
    /\ Len(game.bidding[1].passes) = Cardinality(Passed)
    /\ (game.phase = "bidding_round_2" /\ Cardinality(Passed) = 3) =>
         game.turn = game.dealer

(***************************************************************************)
(* C28  Round-2 pass.  A committed pass, made by a turn seat that is not   *)
(* the dealer in bidding_round_2, adds the seat to the passed set and      *)
(* advances turn clockwise; once the passed set holds 3 seats the turn is  *)
(* the dealer; the passed set of round 2 never contains the dealer and     *)
(* never exceeds 3 seats.                                                  *)
(***************************************************************************)
C28_PassRound2 ==
  /\ []Round2Passes
  /\ [][Committed("bidPassRound2") =>
          /\ game.phase = "bidding_round_2"
          /\ game.turn = last'.by
          /\ last'.by # game.dealer
          /\ last'.by \notin Passed
          /\ Passed' = Passed \cup {last'.by}
          /\ game'.phase = "bidding_round_2"
          /\ game'.turn = Clockwise[game.turn]
          /\ Cardinality(Passed') = 3 => game'.turn = game.dealer]_vars

\* three seats have passed in round 2 and the dealer is to call
C28_Witness ==
  /\ last.op = "bidPassRound2"
  /\ last.res = "ok"
  /\ game.phase = "bidding_round_2"
  /\ Cardinality(Passed) = 3
  /\ game.turn = game.dealer

\* one seat has passed in round 2
C28_WitnessFirst ==
  /\ last.op = "bidPassRound2"
  /\ last.res = "ok"
  /\ Passed = {Clockwise[game.dealer]}
  /\ game.turn = Clockwise[Clockwise[game.dealer]]

(***************************************************************************)
(* C29  Call-trump transition.  A committed call-trump(suit), made by the  *)
(* turn seat in bidding_round_2, sets trump to the chosen suit, makerSeat  *)
(* to the acting seat, phase to playing and turn to the seat left of the   *)
(* dealer, without passing through dealer_discard; every hand still holds  *)
(* exactly 5 cards and the kitty 3.                                        *)
(***************************************************************************)
C29_CallTrump ==
  [][Committed("bidCallTrump") =>
       /\ game.phase = "bidding_round_2"
       /\ game.turn = last'.by
       /\ last'.arg \in Suit
       /\ game'.trump = last'.arg
       /\ game'.makerSeat = last'.by
       /\ game'.phase = "playing"
       /\ game'.turn = Clockwise[game.dealer]
       /\ game'.dealer = game.dealer
       /\ hands' = hands
       /\ \A s \in Seat : Len(HandOf(s)') = 5
       /\ game'.kitty = game.kitty
       /\ Len(game'.kitty) = 3]_vars

\* the dealer, forced to call, named a suit and play began
C29_Witness ==
  /\ last.op = "bidCallTrump"
  /\ last.res = "ok"
  /\ last.by = game.dealer
  /\ game.trump = last.arg
  /\ game.makerSeat = last.by
  /\ game.phase = "playing"
  /\ game.turn = Clockwise[game.dealer]
  /\ Len(game.kitty) = 3

\* a seat other than the dealer called trump
C29_WitnessEarly ==
  /\ last.op = "bidCallTrump"
  /\ last.res = "ok"
  /\ last.by # game.dealer
  /\ game.makerSeat = last.by
  /\ game.phase = "playing"

\* the store holds deck dealt one card at a time, clockwise from the seat left
\* of the dealer, five rounds; then the upcard; then the kitty
DealtFrom(deck) ==
  /\ \A c \in 0..4 : \A i \in 0..3 :
       Len(HandOf(ClockwiseFrom(game.dealer, (i + 1) % 4))) = 5
       /\ HandOf(ClockwiseFrom(game.dealer, (i + 1) % 4))[c + 1] = deck[4 * c + i + 1]
  /\ game.upcard = deck[21]
  /\ game.kitty = << deck[22], deck[23], deck[24] >>

\* what a committed start-hand leaves in the store
StartHandEffects ==
  /\ game'.dealer = Clockwise[game.dealer]
  /\ game'.handNumber = game.handNumber + 1
  /\ game'.turn = Clockwise[game'.dealer]
  /\ game'.phase = "bidding_round_1"
  /\ game'.bidding # <<>> /\ game'.bidding[1].round = 1 /\ Passed' = {}
  /\ game'.trump = Null
  /\ game'.makerSeat = Null
  /\ game'.tricksTaken = ZeroTeams
  /\ \E deck \in Decks : DealtFrom(deck)'

(***************************************************************************)
(* C30  Start-hand effects.  Every committed start-hand sets dealer to the *)
(* seat clockwise-next of the previous hand's dealer (one rotation per     *)
(* hand dealt), turn to the seat left of the new dealer, phase to          *)
(* bidding_round_1 with an empty passed set, trump and makerSeat to null,  *)
(* tricksTaken to 0-0, and increases handNumber by exactly 1; the cards    *)
(* are dealt one at a time clockwise starting left of the dealer for 5     *)
(* rounds, the 21st card is the upcard and the last 3 are the kitty.       *)
(***************************************************************************)
C30_StartHandEffects ==
  [][Dealt => StartHandEffects]_vars

\* C30 for a start-hand made from a snapshot that is the committed record
C30_EffectsFresh ==
  [][(Dealt /\ ~last'.stale) => StartHandEffects]_vars

\* C30 but for the rotation and the count, which are taken from the snapshot
C30_EffectsButRotation ==
  [][Dealt =>
       /\ game'.turn = Clockwise[game'.dealer]
       /\ game'.phase = "bidding_round_1"
       /\ game'.bidding # <<>> /\ game'.bidding[1].round = 1 /\ Passed' = {}
       /\ game'.trump = Null
       /\ game'.makerSeat = Null
       /\ game'.tricksTaken = ZeroTeams
       /\ \E deck \in Decks : DealtFrom(deck)']_vars

\* a second hand has been dealt and the dealer has moved on twice
C30_Witness ==
  /\ last.op = "startHand"
  /\ last.res = "ok"
  /\ game.handNumber = 3
  /\ game.dealer = "S"
  /\ game.turn = "W"
  /\ game.phase = "bidding_round_1"

\* two hands have been dealt and the dealer has moved on once
C30_WitnessTwice ==
  /\ last.op = "startHand"
  /\ last.res = "ok"
  /\ last.stale
  /\ dealt = 2
  /\ game.handNumber = 2
  /\ game.dealer = "E"

\* the step completes a hand and leaves the match unfinished
HandEnds == HandCompletes /\ game'.status # "finished"

\* the per-hand fields that the end of a hand clears, but for the trick counts
HandFieldsCleared ==
  /\ game.trump = Null
  /\ game.makerSeat = Null
  /\ game.upcard = Null
  /\ game.kitty = <<>>
  /\ game.bidding = <<>>
  /\ game.currentTrick = <<>>

\* the trick counts of the hand are cleared
TrickCountsCleared ==
  /\ game.tricksTaken = ZeroTeams
  /\ game.trickWinners = <<>>

\* a start-hand made from the record in the store would commit
CanStartHand ==
  /\ \A s \in Seat : Occupied(s)
  /\ game.status # "finished"
  /\ winningTeam(game.score) = Null

(***************************************************************************)
(* C31  Hand-end reset.  After the commit that completes a hand's 5th      *)
(* trick without ending the match, the per-hand state is null or empty     *)
(* (trump, makerSeat, upcard, kitty, bidding record, current trick,        *)
(* tricksTaken and trickWinners), the phase is lobby, every hand record is *)
(* empty, and a start-hand can then be committed.                          *)
(***************************************************************************)
C31_HandEndReset ==
  [][HandEnds =>
       /\ HandFieldsCleared'
       /\ TrickCountsCleared'
       /\ game'.phase = "lobby"
       /\ \A u \in Uids : hands'[u] = <<>>
       /\ CanStartHand']_vars

\* C31 but for tricksTaken and trickWinners, which keep the hand's final
\* values until the next start-hand
C31_ResetButTricks ==
  [][HandEnds =>
       /\ HandFieldsCleared'
       /\ game'.tricksTaken.NS + game'.tricksTaken.EW = HandSize
       /\ Len(game'.trickWinners) = HandSize
       /\ game'.phase = "lobby"
       /\ \A u \in Uids : hands'[u] = <<>>
       /\ CanStartHand']_vars

\* a hand has ended, the match goes on, and the next hand can be dealt
C31_Witness ==
  /\ last.op = "playCard"
  /\ last.res = "ok"
  /\ game.phase = "lobby"
  /\ game.status = "lobby"
  /\ HandFieldsCleared
  /\ Len(game.trickWinners) = HandSize
  /\ \A u \in Uids : hands[u] = <<>>
  /\ CanStartHand

\* the hand after a completed hand has been dealt
C31_WitnessNextHand ==
  /\ last.op = "startHand"
  /\ last.res = "ok"
  /\ game.score # ZeroTeams
  /\ TrickCountsCleared

\* the step is a play-card by the turn seat that leads a trick with a card it holds
Leads ==
  /\ Called("playCard")
  /\ game.phase = "playing"
  /\ game.turn = last'.by
  /\ game.trump # Null
  /\ DOMAIN TrickRecord = {}
  /\ last'.arg \in Range(HandOf(last'.by))

(***************************************************************************)
(* C32  Leading.  The first play of a trick is accepted for any card in    *)
(* the leader's hand, and the trick's lead suit is set to the effective    *)
(* suit of that card: the printed suit, except that the Jack of the suit   *)
(* of trump's colour counts as trump, so that a led left bower obliges     *)
(* the followers who hold trump to play trump.                             *)
(***************************************************************************)
C32_Leading ==
  [][Leads =>
       /\ last'.res = "ok"
       /\ game'.currentTrick # <<>>
       /\ game'.currentTrick[1].leadSeat = last'.by
       /\ game'.currentTrick[1].cards = [s \in {last'.by} |-> last'.arg]
       /\ game'.currentTrick[1].leadSuit = RuleSuit(last'.arg, game.trump)]_vars

\* the left bower has been led and trump is the lead suit
C32_Witness ==
  /\ game.phase = "playing"
  /\ game.currentTrick # <<>>
  /\ Cardinality(DOMAIN TrickRecord) = 1
  /\ RuleLeftBower(TrickRecord[game.currentTrick[1].leadSeat], game.trump)
  /\ game.currentTrick[1].leadSuit = game.trump
  /\ game.currentTrick[1].leadSuit # parseCard[TrickRecord[game.currentTrick[1].leadSeat]].suit

\* a follower holding trump was refused the printed suit of a led left bower
C32_WitnessFollower ==
  /\ last.op = "playCard"
  /\ last.res = "Must follow suit"
  /\ game.currentTrick # <<>>
  /\ RuleLeftBower(TrickRecord[game.currentTrick[1].leadSeat], game.trump)
  /\ parseCard[last.arg].suit = parseCard[TrickRecord[game.currentTrick[1].leadSeat]].suit

\* a trick after the first has been led
C32_WitnessLater ==
  /\ last.op = "playCard"
  /\ last.res = "ok"
  /\ game.currentTrick # <<>>
  /\ game.currentTrick[1].trickNumber > 1
  /\ DOMAIN TrickRecord = {last.by}

\* the turn seat has a call that the transaction would commit
TurnSeatCanAct ==
  CASE game.phase = "bidding_round_1" ->
         \/ bidPassRound1Result(game, game.turn) = "ok"
         \/ bidOrderUpResult(game, game.turn) = "ok"
    [] game.phase = "bidding_round_2" ->
         \/ bidPassRound2Result(game, game.turn) = "ok"
         \/ \E suit \in Suit : bidCallTrumpResult(game, game.turn, suit) = "ok"
    [] game.phase = "dealer_discard" ->
         /\ game.turn = game.dealer
         /\ \E d \in Range(HandOf(game.dealer)) \cup {game.upcard} :
              discardResult(game, HandOf(game.dealer), d) = "ok"
    [] game.phase = "playing" ->
         /\ HandOf(game.turn) # <<>>
         /\ \E c \in Range(HandOf(game.turn)) :
              playCardResult(game, game.turn, HandOf(game.turn), c) = "ok"
    [] OTHER -> FALSE

(***************************************************************************)
(* C33  No deadlock.  In every reachable state whose phase is              *)
(* bidding_round_1, bidding_round_2, dealer_discard or playing, the turn   *)
(* seat is occupied and has at least one action that would commit (a pass  *)
(* or a bid, a legal discard, a legal card of its non-empty hand); in the  *)
(* lobby of a match that is not finished, with 4 occupied seats, a         *)
(* start-hand would commit.                                                *)
(***************************************************************************)
C33_NoDeadlock ==
  /\ game.phase \in HandPhases => Occupied(game.turn) /\ TurnSeatCanAct
  /\ (/\ game.phase \in {Null, "lobby"}
      /\ game.status # "finished"
      /\ \A s \in Seat : Occupied(s)) => startHandResult(game) = "ok"

\* the dealer, after three passes in round 2, cannot pass but can call
C33_Witness ==
  /\ game.phase = "bidding_round_2"
  /\ game.turn = game.dealer
  /\ Cardinality(Passed) = 3
  /\ bidPassRound2Result(game, game.turn) # "ok"
  /\ \E suit \in Suit : bidCallTrumpResult(game, game.turn, suit) = "ok"

\* a follower that must follow suit holds a card it may not play and one it may
C33_WitnessFollow ==
  /\ game.phase = "playing"
  /\ DOMAIN TrickRecord # {}
  /\ \E c \in Range(HandOf(game.turn)) :
       playCardResult(game, game.turn, HandOf(game.turn), c) = "Must follow suit"
  /\ \E c \in Range(HandOf(game.turn)) :
       playCardResult(game, game.turn, HandOf(game.turn), c) = "ok"

\* a follower void in the lead suit is to play
C33_WitnessVoid ==
  /\ game.phase = "playing"
  /\ DOMAIN TrickRecord # {}
  /\ \A c \in Range(HandOf(game.turn)) :
       RuleSuit(c, game.trump) # game.currentTrick[1].leadSuit

\* the last card of a hand is to be played
C33_WitnessLast ==
  /\ game.phase = "playing"
  /\ Len(game.trickWinners) = 4
  /\ Cardinality(DOMAIN TrickRecord) = 3
  /\ Len(HandOf(game.turn)) = 1

\* the hand numbers of the late match
LateHands == (lateGame.handNumber + 1)..(lateGame.handNumber + MaxDeals)

\* hand n is under way
HandUnderWay(n) == game.handNumber = n /\ game.phase \in HandPhases

\* hand n has completed its 5th trick
HandDone(n) ==
  /\ game.handNumber = n
  /\ game.phase = "lobby"
  /\ Len(game.trickWinners) = HandSize

(***************************************************************************)
(* C34  Match termination.  With all four seats occupied and under weak    *)
(* fairness of the turn seat's actions and of start-hand in the lobby,     *)
(* every hand that is dealt eventually completes its 5th trick and the     *)
(* match eventually becomes finished.                                      *)
(***************************************************************************)
C34_Termination ==
  /\ \A n \in LateHands : HandUnderWay(n) ~> HandDone(n)
  /\ <>(game.status = "finished")

\* the steps of the late match but for a start-hand that commits during a hand
NextInOrder ==
  NextNow /\ ~(Dealt /\ game.phase \in HandPhases)

\* the fair late match in which hands are dealt between hands only
SpecFairInOrder ==
  /\ InitLate
  /\ [][NextInOrder]_vars
  /\ WF_vars(TurnSeatActs)
  /\ WF_vars(LobbyStarts /\ NextInOrder)

\* a completed hand adds 1 or 2 to the sum of the scores, and the match is
\* finished after it exactly if a team has reached the target
C34_HandsCount ==
  [][HandCompletes =>
       /\ game'.score.NS + game'.score.EW - (game.score.NS + game.score.EW) \in {1, 2}
       /\ game'.status = "finished" <=> AtTarget(game'.score)]_vars

\* a hand was dealt over a hand under way
C34_Witness ==
  /\ last.op = "startHand"
  /\ last.res = "ok"
  /\ ~last.stale
  /\ game.handNumber = lateGame.handNumber + 2
  /\ game.score = lateGame.score

\* the match has finished
C34_WitnessFinished ==
  /\ game.status = "finished"
  /\ AtTarget(game.score)
  /\ dealt >= 1

(***************************************************************************)
(* C35  Hand sizes.  No hand record holds more than 5 cards; in the        *)
(* playing phase each seat holds 5 cards less the cards it has played in   *)
(* the hand (one per completed trick, one more if it has played to the     *)
(* current trick), so the sizes differ by at most 1; when the 5th trick    *)
(* completes all four hands are empty.                                     *)
(***************************************************************************)
\* cards a seat has played in the hand under way
CardsPlayed(seat) ==
  Len(game.trickWinners) + (IF seat \in DOMAIN TrickRecord THEN 1 ELSE 0)

HandSizeOf(seat) == Len(hands[game.seats[seat]])

HandSizesFit ==
  /\ \A u \in Uids : Len(hands[u]) <= HandSize
  /\ game.phase = "playing" =>
       /\ \A seat \in Seat : HandSizeOf(seat) = HandSize - CardsPlayed(seat)
       /\ \A s1, s2 \in Seat : HandSizeOf(s1) - HandSizeOf(s2) \in {-1, 0, 1}

C35_HandSizes ==
  /\ []HandSizesFit
  /\ [][HandCompletes => \A u \in Uids : hands'[u] = <<>>]_vars

\* a trick is half played: two seats hold a card less than the other two
C35_Witness ==
  /\ game.phase = "playing"
  /\ Len(game.trickWinners) = 2
  /\ Cardinality(DOMAIN TrickRecord) = 2
  /\ \E s1, s2 \in Seat : HandSizeOf(s1) = 2 /\ HandSizeOf(s2) = 3

\* the dealer has discarded after picking the upcard up and holds 5 cards
C35_WitnessDiscard ==
  /\ last.op = "dealerPickupAndDiscard"
  /\ last.res = "ok"
  /\ game.phase = "playing"
  /\ \A seat \in Seat : HandSizeOf(seat) = HandSize

\* the 5th trick has completed and the hands are empty
C35_WitnessEmpty ==
  /\ game.phase = "lobby"
  /\ Len(game.trickWinners) = HandSize
  /\ \A u \in Uids : hands[u] = <<>>

(***************************************************************************)
(* C36  Trick bookkeeping.  During a hand the tricks credited to the two   *)
(* teams add up to the number of recorded trick winners, which is at most  *)
(* 5 and, in the playing phase, is the current trick number less 1; each   *)
(* recorded winner is the leadSeat of the trick that follows it: the       *)
(* trick opened after a completed one names the winner as its leadSeat,    *)
(* and the seat that leads to it is that winner.                           *)
(***************************************************************************)
LastWinner(g) == g.trickWinners[Len(g.trickWinners)]

TricksBooked ==
  game.phase \in HandPhases =>
    /\ game.tricksTaken.NS + game.tricksTaken.EW = Len(game.trickWinners)
    /\ Len(game.trickWinners) <= HandSize
    /\ game.phase = "playing" =>
         /\ Len(game.trickWinners) = TrickNumberOf(game) - 1
         /\ game.trickWinners # <<>> =>
              /\ game.currentTrick # <<>>
              /\ game.currentTrick[1].leadSeat = LastWinner(game)

C36_TrickBookkeeping ==
  /\ []TricksBooked
  /\ [][(Leads /\ game.trickWinners # <<>>) => last'.by = LastWinner(game)]_vars

\* the third trick is under way, led by the winner of the second
C36_Witness ==
  /\ game.phase = "playing"
  /\ Len(game.trickWinners) = 2
  /\ game.tricksTaken.NS = 1
  /\ game.tricksTaken.EW = 1
  /\ game.currentTrick[1].trickNumber = 3
  /\ DOMAIN TrickRecord # {}
  /\ game.currentTrick[1].leadSeat = game.trickWinners[2]
  /\ game.trickWinners[1] # game.trickWinners[2]

\* the fifth trick is under way
C36_WitnessFifth ==
  /\ game.phase = "playing"
  /\ Len(game.trickWinners) = 4
  /\ game.currentTrick[1].trickNumber = HandSize
  /\ Cardinality(DOMAIN TrickRecord) = 3

(***************************************************************************)
(* C37  Score bound.  In every reachable state each team's score is at     *)
(* most 11 and the losing team's score is at most 9: at most one team      *)
(* holds 10 or more.                                                       *)
(***************************************************************************)
ScoreWithin(score) ==
  /\ \A t \in TeamKey : score[t] <= Target + 1
  /\ \E t \in TeamKey : score[t] <= Target - 1

C37_ScoreBound == ScoreWithin(game.score)

\* the score changes only when a hand completes, by 1 or 2 for one team; a
\* hand that completes in a match below the target leaves the score in bounds
C37_BoundBelowTarget ==
  [][/\ ~HandCompletes => game'.score = game.score
     /\ HandCompletes =>
          /\ \E t \in TeamKey :
               /\ game'.score[t] - game.score[t] \in {1, 2}
               /\ game'.score[otherTeam(t)] = game.score[otherTeam(t)]
          /\ ~AtTarget(game.score) => ScoreWithin(game'.score)]_vars

\* both teams hold 10 or more
C37_Witness ==
  /\ game.score.NS >= Target
  /\ game.score.EW >= Target

\* a team holds 12
C37_WitnessTwelve ==
  \E t \in TeamKey : game.score[t] = Target + 2

\* a hand is dealt in a match that is over
C37_WitnessDealt ==
  /\ last.op = "startHand"
  /\ last.res = "ok"
  /\ AtTarget(game.score)
  /\ game.phase = "bidding_round_1"

(***************************************************************************)
(* C38  Trump/maker consistency.  In every reachable state trump and       *)
(* makerSeat are both set in the phases dealer_discard and playing and     *)
(* both null in every other phase; so no play-card ends with 'Trump not    *)
(* set', and every hand that completes is scored for a maker.              *)
(***************************************************************************)
TrumpPhases == {"dealer_discard", "playing"}

TrumpFitsPhase ==
  /\ game.phase \in TrumpPhases => game.trump \in Suit /\ game.makerSeat \in Seat
  /\ game.phase \notin TrumpPhases => game.trump = Null /\ game.makerSeat = Null
  /\ last.res # "Trump not set"

C38_TrumpMaker ==
  /\ []TrumpFitsPhase
  /\ [][HandCompletes =>
          /\ game.makerSeat \in Seat
          /\ game'.score # game.score]_vars

\* trump has been called in round 2 and cards are being played
C38_Witness ==
  /\ game.phase = "playing"
  /\ game.trump \in Suit
  /\ game.makerSeat \in Seat
  /\ game.upcard # Null
  /\ game.trump # suitCharFromCard(game.upcard)
  /\ DOMAIN TrickRecord # {}

\* the upcard has been ordered up and the dealer is to discard
C38_WitnessDiscard ==
  /\ game.phase = "dealer_discard"
  /\ game.trump = suitCharFromCard(game.upcard)
  /\ game.makerSeat \in Seat

\* a hand has been dealt while the lagging client still shows trump set
C38_WitnessRedeal ==
  /\ last.op = "startHand"
  /\ last.res = "ok"
  /\ view.phase \in TrumpPhases
  /\ game.phase = "bidding_round_1"
  /\ game.trump = Null

\* a hand has been played out and scored
C38_WitnessScored ==
  /\ game.phase = "lobby"
  /\ Len(game.trickWinners) = HandSize
  /\ game.score # ZeroTeams

(***************************************************************************)
(* C39  Frame conditions.  A bid, a discard and a play-card never change   *)
(* seats, dealer or handNumber; a bid never changes a hand record, the     *)
(* kitty, the upcard or the score; a play-card changes no hand record but  *)
(* the acting seat's; a seat-claim changes nothing but the occupant of the *)
(* claimed seat.                                                           *)
(***************************************************************************)
SameMatch ==
  /\ game'.seats = game.seats
  /\ game'.dealer = game.dealer
  /\ game'.handNumber = game.handNumber

C39_Frame ==
  [][/\ (CalledBid \/ Called("dealerPickupAndDiscard") \/ Called("playCard"))
          => SameMatch
     /\ CalledBid =>
          /\ hands' = hands
          /\ game'.kitty = game.kitty
          /\ game'.upcard = game.upcard
          /\ game'.score = game.score
     /\ Called("playCard") =>
          \A seat \in Seat :
            (seat # last'.by /\ game.seats[seat] # Null)
              => hands'[game.seats[seat]] = hands[game.seats[seat]]
     /\ Called("claimSeat") =>
          /\ hands' = hands
          /\ \A f \in DOMAIN game \ {"seats"} : game'[f] = game[f]
          /\ \A seat \in Seat \ {last'.arg} : game'.seats[seat] = game.seats[seat]]_vars

\* a card has been played to a trick and the other seats hold what they held
C39_Witness ==
  /\ last.op = "playCard"
  /\ last.res = "ok"
  /\ game.phase = "playing"
  /\ Cardinality(DOMAIN TrickRecord) = 2
  /\ Len(hands[game.seats[last.by]]) = HandSize - 1
  /\ \E seat \in Seat : Len(hands[game.seats[seat]]) = HandSize

\* a bid has committed
C39_WitnessBid ==
  /\ last.op \in DOMAIN BidPhase
  /\ last.res = "ok"
  /\ game.phase = "bidding_round_2"
  /\ game.upcard # Null
  /\ \A u \in Uids : Len(hands[u]) = HandSize

\* a seat has been claimed next to a seat that was taken
C39_WitnessClaim ==
  /\ last.op = "claimSeat"
  /\ last.res = "ok"
  /\ game.seats[last.arg] = last.by
  /\ Cardinality({seat \in Seat : game.seats[seat] # Null}) = 3

\* the dealer has discarded
C39_WitnessDiscard ==
  /\ last.op = "dealerPickupAndDiscard"
  /\ last.res = "ok"
  /\ game.handNumber = 2

====
